---- MODULE Spec2Model ----
(***************************************************************************)
(* Melaka: translation synchronisation pipeline.                           *)
(*                                                                         *)
(* The model covers the per-(document, locale) processing pipeline         *)
(* (processTranslation), the i18n record store operations it uses          *)
(* (readMelakaMetadata, writeTranslation, markTranslationFailed,           *)
(* deleteTranslation, isTranslationCurrent) and the pure helpers           *)
(* separateContent / hashContent.  Several pipeline passes run             *)
(* concurrently; every await of the source is a separate step.             *)
(*                                                                         *)
(* Encoding of JavaScript values.  An object is a sequence of              *)
(* <<key, value>> pairs in insertion order, keys unique.  A value is       *)
(* [t, v]: t is "scalar", "array" or "null" and v the sequence of its      *)
(* atoms; an atom is [k, lang, text, props] where k is the kind of the     *)
(* item ("string", "number", "boolean", "null" or "object"), text its      *)
(* content, lang the language the text is written in and props the own     *)
(* properties of an object item as <<key, kind, text>> triples.            *)
(***************************************************************************)
EXTENDS Integers, Sequences, FiniteSets, TLC

\* ------------------------------------------------------------------ bounds
MaxMutations == 1
MaxDeletes == 1

\* --------------------------------------------------------------- universes
Tasks == {"t1", "t2"}
TaskOrder == <<"t1", "t2">>
Docs == {"d1", "d2"}
Locales == {"ms-MY", "zh-CN"}
Providers == {"gemini", "openai"}

\* ------------------------------------------------------------ JS encodings
Atom(k, text) == [k |-> k, lang |-> "src", text |-> text, props |-> <<>>]
\* a nested map with the given own properties
ObjAtom(props) == [k |-> "object", lang |-> "src", text |-> "", props |-> props]
NullAtom == Atom("null", "null")
Str(s) == [t |-> "scalar", v |-> <<Atom("string", s)>>]
Num(n) == [t |-> "scalar", v |-> <<Atom("number", n)>>]
StrArr(ss) == [t |-> "array", v |-> [i \in 1..Len(ss) |-> Atom("string", ss[i])]]
Flag(b) == [t |-> "scalar", v |-> <<Atom("boolean", b)>>]
Obj(props) == [t |-> "scalar", v |-> <<ObjAtom(props)>>]
Arr(items) == [t |-> "array", v |-> items]
NullValue == [t |-> "null", v |-> <<>>]

Keys(obj) == [i \in 1..Len(obj) |-> obj[i][1]]
KeySet(obj) == {obj[i][1] : i \in 1..Len(obj)}
Get(obj, k) == obj[CHOOSE i \in 1..Len(obj) : obj[i][1] = k][2]

\* obj[k] = val : overwrite in place when the key exists, append otherwise
ObjSet(obj, k, val) ==
    IF k \in KeySet(obj)
    THEN [i \in 1..Len(obj) |-> IF obj[i][1] = k THEN <<k, val>> ELSE obj[i]]
    ELSE Append(obj, <<k, val>>)

\* { ...a, ...b }
RECURSIVE ObjSpread(_, _)
ObjSpread(a, b) ==
    IF b = <<>> THEN a
    ELSE ObjSpread(ObjSet(a, b[1][1], b[1][2]), Tail(b))

\* lexicographic order of the field names in use (Array.prototype.sort)
KeyOrder == <<"_melaka", "tags", "title", "views">>

\* ------------------------------------------------- core/utils.ts (pure)
\* typeof item
TypeOf(atom) == IF atom.k = "null" THEN "object" ELSE atom.k

\* 'key' in item
HasProp(atom, key) == \E i \in 1..Len(atom.props) : atom.props[i][1] = key
\* typeof item[key]
PropKind(atom, key) == atom.props[CHOOSE i \in 1..Len(atom.props) : atom.props[i][1] = key][2]

isDocumentReference(atom) ==
    /\ atom.k # "null"
    /\ TypeOf(atom) = "object"
    /\ HasProp(atom, "path")
    /\ PropKind(atom, "path") = "string"
    /\ HasProp(atom, "id")

isTimestamp(atom) ==
    /\ atom.k # "null"
    /\ TypeOf(atom) = "object"
    /\ HasProp(atom, "_seconds")
    /\ HasProp(atom, "_nanoseconds")

isGeoPoint(atom) ==
    /\ atom.k # "null"
    /\ TypeOf(atom) = "object"
    /\ HasProp(atom, "latitude")
    /\ HasProp(atom, "longitude")

\* slip: an array is tagged from its last item
detectFieldType_LastItem(value) ==
    IF value.t = "null" THEN "object|null"
    ELSE IF value.t = "array" THEN
        IF Len(value.v) = 0 THEN "string[]"
        ELSE LET firstItem == value.v[Len(value.v)]
             IN  IF isDocumentReference(firstItem) THEN "DocumentReference[]"
                 ELSE IF TypeOf(firstItem) = "string" THEN "string[]"
                 ELSE IF TypeOf(firstItem) = "number" THEN "number[]"
                 ELSE IF TypeOf(firstItem) = "object" /\ firstItem.k # "null" THEN "object[]"
                 ELSE "string[]"
    ELSE LET item == value.v[1]
         IN  IF isDocumentReference(item) THEN "DocumentReference"
             ELSE IF isTimestamp(item) THEN "object"
             ELSE IF isGeoPoint(item) THEN "object"
             ELSE IF TypeOf(item) = "string" THEN "string"
             ELSE IF TypeOf(item) = "number" THEN "number"
             ELSE IF TypeOf(item) = "boolean" THEN "boolean"
             ELSE "object"

detectFieldType(value) ==
    IF value.t = "null" THEN "object|null"
    ELSE IF value.t = "array" THEN
        IF Len(value.v) = 0 THEN "string[]"
        ELSE LET firstItem == value.v[1]
             IN  IF isDocumentReference(firstItem) THEN "DocumentReference[]"
                 ELSE IF TypeOf(firstItem) = "string" THEN "string[]"
                 ELSE IF TypeOf(firstItem) = "number" THEN "number[]"
                 ELSE IF TypeOf(firstItem) = "object" /\ firstItem.k # "null" THEN "object[]"
                 ELSE "string[]"
    ELSE LET item == value.v[1]
         IN  IF isDocumentReference(item) THEN "DocumentReference"
             ELSE IF isTimestamp(item) THEN "object"
             ELSE IF isGeoPoint(item) THEN "object"
             ELSE IF TypeOf(item) = "string" THEN "string"
             ELSE IF TypeOf(item) = "number" THEN "number"
             ELSE IF TypeOf(item) = "boolean" THEN "boolean"
             ELSE "object"

\* slip: numbers are sent for translation too
isTranslatableType_Numbers(schemaType) == schemaType \in {"string", "string[]", "number"}

isTranslatableType(schemaType) == schemaType \in {"string", "string[]"}

\* collectionConfig.fields: undefined, or a list of field names
NoFields == [given |-> FALSE, list |-> <<>>]
FieldList(names) == [given |-> TRUE, list |-> names]
Includes(list, x) == \E i \in 1..Len(list) : list[i] = x

\* slip: the metadata field is treated like any other field
IsReservedField_None(field) == FALSE

\* field === '_melaka'
IsReservedField(field) == field = "_melaka"

\* slip: the field list is not consulted
OutsideFieldList_Never(fields, field) == FALSE

\* fields && !fields.includes(field)
OutsideFieldList(fields, field) == fields.given /\ ~Includes(fields.list, field)

RECURSIVE SeparateFrom(_, _, _)
SeparateFrom(entries, fields, acc) ==
    IF entries = <<>> THEN acc
    ELSE LET field == entries[1][1]
             value == entries[1][2]
             schemaType == detectFieldType(value)
             rest == Tail(entries)
         IN  IF IsReservedField(field) THEN SeparateFrom(rest, fields, acc)
             ELSE IF OutsideFieldList(fields, field)
             THEN SeparateFrom(rest, fields,
                    [acc EXCEPT !.nonTranslatable = ObjSet(@, field, value)])
             ELSE IF isTranslatableType(schemaType)
             THEN SeparateFrom(rest, fields,
                    [acc EXCEPT !.translatable = ObjSet(@, field, value),
                                !.detectedTypes = ObjSet(@, field, schemaType)])
             ELSE SeparateFrom(rest, fields,
                    [acc EXCEPT !.nonTranslatable = ObjSet(@, field, value),
                                !.detectedTypes = ObjSet(@, field, schemaType)])

separateContent(doc, fields) ==
    SeparateFrom(doc, fields,
        [translatable |-> <<>>, nonTranslatable |-> <<>>, detectedTypes |-> <<>>])

\* JSON.stringify with a replacer array: of every object, the top-level
\* one and the nested ones alike, only the properties named in the array
\* are written, in the order of the array; array items are all written
PropsIn(atom, keyList) ==
    [i \in 1..Len(SelectSeq(keyList, LAMBDA k : HasProp(atom, k))) |->
        LET key == SelectSeq(keyList, LAMBDA k : HasProp(atom, k))[i]
        IN  atom.props[CHOOSE j \in 1..Len(atom.props) : atom.props[j][1] = key]]

SerializeItem(atom, keyList) ==
    IF atom.k = "object" THEN [atom EXCEPT !.props = PropsIn(atom, keyList)] ELSE atom

Serialize(value, keyList) ==
    [value EXCEPT !.v = [i \in 1..Len(value.v) |-> SerializeItem(value.v[i], keyList)]]

RECURSIVE StringifyFrom(_, _, _)
StringifyFrom(content, keyList, rest) ==
    IF rest = <<>> THEN <<>>
    ELSE IF rest[1] \in KeySet(content)
         THEN <<<<rest[1], Serialize(Get(content, rest[1]), keyList)>>>>
                 \o StringifyFrom(content, keyList, Tail(rest))
         ELSE StringifyFrom(content, keyList, Tail(rest))

Stringify(content, keyList) == StringifyFrom(content, keyList, keyList)

\* slip: the keys are left in insertion order
SortedKeys_Unsorted(content) == Keys(content)

\* Object.keys(content).sort()
SortedKeys(content) == SelectSeq(KeyOrder, LAMBDA k : k \in KeySet(content))

\* SHA-256 taken as injective on its input; '' is the empty string that
\* markTranslationFailed stores as source_hash
Sha256(input) == [alg |-> "sha256", input |-> input]
EmptyString == [alg |-> "", input |-> <<>>]

hashContent(content) == Sha256(Stringify(content, SortedKeys(content)))

\* ------------------------------------------------------ source documents
DocHello == << <<"title", Str("Hello")>>, <<"views", Num("10")>> >>
DocHola  == << <<"title", Str("Hola")>>, <<"views", Num("10")>> >>
DocViews == << <<"views", Num("10")>> >>
Contents == {DocHello, DocHola, DocViews}
\* the document as it was under an earlier, wider schema
DocWide  == << <<"title", Str("Hello")>>, <<"tags", StrArr(<<"a">>)>>, <<"views", Num("10")>> >>

FieldsOptions == {NoFields, FieldList(<<"views">>)}

\* ------------------------------------------------------- record store
\* _melaka metadata; present = FALSE stands for "no metadata" (null)
NoMeta == [present |-> FALSE, status |-> "", source_hash |-> EmptyString,
           translated_at |-> 0, model |-> "", reviewed |-> FALSE,
           hasError |-> FALSE, error |-> ""]

\* an i18n document; exists = FALSE stands for a missing document
NoRecord == [exists |-> FALSE, fields |-> <<>>, melaka |-> NoMeta]

\* the paths <doc>/i18n/<locale>
I18nRefs == Docs \X Locales

\* slip: the locale is not part of the reference
getI18nRef_IgnoresLocale(d, l) == <<d, "ms-MY">>

getI18nRef(d, l) == <<d, l>>

readTranslation(rec) == IF ~rec.exists THEN NoRecord ELSE rec

readMelakaMetadata(rec) ==
    LET translation == readTranslation(rec)
    IN  IF ~translation.exists \/ ~translation.melaka.present
        THEN NoMeta
        ELSE translation.melaka

\* slip: the document is set with {merge: true}
DocSet_Merge(rec, data) ==
    IF ~rec.exists THEN data
    ELSE [exists |-> TRUE,
          fields |-> ObjSpread(rec.fields, data.fields),
          melaka |-> IF rec.melaka.present /\ data.melaka.present /\ ~data.melaka.hasError
                     THEN [data.melaka EXCEPT !.hasError = rec.melaka.hasError,
                                              !.error = rec.melaka.error]
                     ELSE data.melaka]

\* i18nRef.set(data): the stored document is replaced by data
DocSet(rec, data) == data

\* the document that i18nRef.set(finalDoc) stores
writeTranslation(translatedContent, nonTranslatableContent, metadata) ==
    [exists |-> TRUE,
     fields |-> ObjSpread(translatedContent, nonTranslatableContent),
     melaka |-> metadata]

\* slip: the mark also resets the stored hash
MarkFailedUpdate_ResetsHash(rec, error, timestamp) ==
    [rec EXCEPT !.melaka = [@ EXCEPT !.present = TRUE,
                                     !.status = "failed",
                                     !.hasError = TRUE,
                                     !.error = error,
                                     !.translated_at = timestamp,
                                     !.source_hash = EmptyString]]

\* i18nRef.update({'_melaka.status', '_melaka.error', '_melaka.translated_at'})
MarkFailedUpdate(rec, error, timestamp) ==
    [rec EXCEPT !.melaka = [@ EXCEPT !.present = TRUE,
                                     !.status = "failed",
                                     !.hasError = TRUE,
                                     !.error = error,
                                     !.translated_at = timestamp]]

\* slip: the minimal document is created as pending
MarkFailedCreate_Pending(error, timestamp) ==
    [exists |-> TRUE, fields |-> <<>>,
     melaka |-> [present |-> TRUE, status |-> "pending",
                 source_hash |-> EmptyString, translated_at |-> timestamp,
                 model |-> "", reviewed |-> FALSE,
                 hasError |-> TRUE, error |-> error]]

\* i18nRef.set({_melaka: {status: 'failed', ...}})
MarkFailedCreate(error, timestamp) ==
    [exists |-> TRUE, fields |-> <<>>,
     melaka |-> [present |-> TRUE, status |-> "failed",
                 source_hash |-> EmptyString, translated_at |-> timestamp,
                 model |-> "", reviewed |-> FALSE,
                 hasError |-> TRUE, error |-> error]]

\* slip: the status is not looked at
isTranslationCurrent_IgnoresStatus(rec, sourceHash) ==
    LET metadata == readMelakaMetadata(rec)
    IN  IF ~metadata.present THEN FALSE
        ELSE metadata.source_hash = sourceHash

isTranslationCurrent(rec, sourceHash) ==
    LET metadata == readMelakaMetadata(rec)
    IN  IF ~metadata.present THEN FALSE
        ELSE metadata.status = "completed" /\ metadata.source_hash = sourceHash

\* ------------------------------------------------------------ gateway
GeminiModel == "gemini-2.5-flash"

\* the provider's answer for one value: the same shape, every text rendered
\* in the target language
TranslateValue(value, targetLanguage) ==
    [value EXCEPT !.v = [i \in 1..Len(value.v) |->
                            [value.v[i] EXCEPT !.lang = targetLanguage]]]

\* validated.data of a successful call: the translatable keys, translated
TranslationOutput(translatable, targetLanguage) ==
    [i \in 1..Len(translatable) |->
        <<translatable[i][1], TranslateValue(translatable[i][2], targetLanguage)>>]

\* ------------------------------------------- ai/prompt.ts: reply parsing
\* A reply text is a sequence of tokens: "txt" is prose, "fence" a ``` mark,
\* "fencejson" a ``` mark followed by the word json, "{" and "}" braces,
\* "lit" a JSON literal that is not an object, and a member one well-formed
\* "key": value pair of an object
Tok(c) == [c |-> c, key |-> "", value |-> NullValue]
Member(key, value) == [c |-> "member", key |-> key, value |-> value]

\* the object a sequence of members denotes; a repeated key keeps its last value
RECURSIVE ObjectOf(_, _)
ObjectOf(members, acc) ==
    IF members = <<>> THEN acc
    ELSE ObjectOf(Tail(members), ObjSet(acc, members[1].key, members[1].value))

SyntaxError == [ok |-> FALSE, isObject |-> FALSE, obj |-> <<>>]

\* JSON.parse(text): a literal, or an object of members between one pair of
\* braces; anything else is a SyntaxError
JsonParse(text) ==
    IF Len(text) = 1 /\ text[1].c = "lit"
    THEN [ok |-> TRUE, isObject |-> FALSE, obj |-> <<>>]
    ELSE IF /\ Len(text) >= 2
            /\ text[1].c = "{"
            /\ text[Len(text)].c = "}"
            /\ \A i \in 2..(Len(text) - 1) : text[i].c = "member"
    THEN [ok |-> TRUE, isObject |-> TRUE,
          obj |-> ObjectOf(SubSeq(text, 2, Len(text) - 1), <<>>)]
    ELSE SyntaxError

Positions(text, cs) == {i \in 1..Len(text) : text[i].c \in cs}
First(S) == CHOOSE i \in S : \A j \in S : i <= j
Last(S) == CHOOSE i \in S : \A j \in S : j <= i

\* response.match(/```(?:json)?\s*([\s\S]*?)```/): the text between the first
\* fence mark and the next one
CodeBlockMatch(response) ==
    LET marks == Positions(response, {"fence", "fencejson"})
    IN  IF Cardinality(marks) < 2 THEN [found |-> FALSE, text |-> <<>>]
        ELSE LET open == First(marks)
                 close == First(marks \ {open})
             IN  [found |-> TRUE, text |-> SubSeq(response, open + 1, close - 1)]

\* response.match(/\{[\s\S]*\}/): from the first "{" to the last "}"
JsonMatch(response) ==
    LET opens == Positions(response, {"{"})
        closes == Positions(response, {"}"})
    IN  IF opens = {} \/ closes = {} \/ Last(closes) < First(opens)
        THEN [found |-> FALSE, text |-> <<>>]
        ELSE [found |-> TRUE, text |-> SubSeq(response, First(opens), Last(closes))]

\* slip: the code block is not looked for
extractJsonFromResponse_NoCodeBlock(response) ==
    LET direct == JsonParse(response)
        jsonMatch == JsonMatch(response)
    IN  IF direct.ok THEN direct
        ELSE IF jsonMatch.found /\ JsonParse(jsonMatch.text).ok
        THEN JsonParse(jsonMatch.text)
        ELSE SyntaxError

\* ok = FALSE stands for the Error thrown when nothing parses
extractJsonFromResponse(response) ==
    LET direct == JsonParse(response)
        codeBlockMatch == CodeBlockMatch(response)
        jsonMatch == JsonMatch(response)
    IN  IF direct.ok THEN direct
        ELSE IF codeBlockMatch.found /\ JsonParse(codeBlockMatch.text).ok
        THEN JsonParse(codeBlockMatch.text)
        ELSE IF jsonMatch.found /\ JsonParse(jsonMatch.text).ok
        THEN JsonParse(jsonMatch.text)
        ELSE SyntaxError

\* ------------------------------------- core/schema-generator.ts (pure)
SchemaTypes == {"string", "string[]", "number", "number[]", "boolean", "object",
                "object[]", "object|null", "DocumentReference", "DocumentReference[]"}

\* the validator of one field: named after the type it accepts
createFieldSchema(schemaType) == IF schemaType \in SchemaTypes THEN schemaType ELSE "unknown"

IsRefObject(atom) ==
    /\ atom.k = "object"
    /\ HasProp(atom, "path") /\ PropKind(atom, "path") = "string"
    /\ HasProp(atom, "id") /\ PropKind(atom, "id") = "string"

\* whether the validator of a field accepts a value; nothing is coerced
ZodAccepts(schema, value) ==
    LET scalar(P(_)) == value.t = "scalar" /\ P(value.v[1])
        array(P(_)) == value.t = "array" /\ \A i \in 1..Len(value.v) : P(value.v[i])
        isString(a) == a.k = "string"
        isNumber(a) == a.k = "number"
        isBoolean(a) == a.k = "boolean"
        isRecord(a) == a.k = "object"
    IN  CASE schema = "string" -> scalar(isString)
          [] schema = "string[]" -> array(isString)
          [] schema = "number" -> scalar(isNumber)
          [] schema = "number[]" -> array(isNumber)
          [] schema = "boolean" -> scalar(isBoolean)
          [] schema = "object" -> scalar(isRecord)
          [] schema = "object[]" -> array(isRecord)
          [] schema = "object|null" -> value.t = "null" \/ scalar(isRecord)
          [] schema = "DocumentReference" -> scalar(IsRefObject)
          [] schema = "DocumentReference[]" -> array(IsRefObject)
          [] OTHER -> TRUE

\* z.object(schemaFields): one validator per translatable field, in order
createTranslationSchema(translatable, detectedTypes) ==
    [i \in 1..Len(translatable) |->
        LET field == translatable[i][1]
            schemaType == IF field \in KeySet(detectedTypes)
                          THEN Get(detectedTypes, field) ELSE "string"
        IN  <<field, createFieldSchema(schemaType)>>]

\* slip: the object is validated with .passthrough(), unknown keys are kept
SchemaSafeParse_Passthrough(schema, parsed) ==
    IF /\ parsed.isObject
       /\ \A i \in 1..Len(schema) :
             /\ schema[i][1] \in KeySet(parsed.obj)
             /\ ZodAccepts(schema[i][2], Get(parsed.obj, schema[i][1]))
    THEN [success |-> TRUE, data |-> parsed.obj]
    ELSE [success |-> FALSE, data |-> <<>>]

\* slip: on a mismatch the fields that do conform are accepted
SchemaSafeParse_Partial(schema, parsed) ==
    IF parsed.isObject
    THEN [success |-> TRUE,
          data |-> LET fit == SelectSeq(schema, LAMBDA f :
                                  /\ f[1] \in KeySet(parsed.obj)
                                  /\ ZodAccepts(f[2], Get(parsed.obj, f[1])))
                   IN  [i \in 1..Len(fit) |-> <<fit[i][1], Get(parsed.obj, fit[i][1])>>]]
    ELSE [success |-> FALSE, data |-> <<>>]

\* schema.safeParse(parsed) of a z.object: every field of the shape must be
\* present and accepted; keys outside the shape are stripped from the data
SchemaSafeParse(schema, parsed) ==
    IF /\ parsed.isObject
       /\ \A i \in 1..Len(schema) :
             /\ schema[i][1] \in KeySet(parsed.obj)
             /\ ZodAccepts(schema[i][2], Get(parsed.obj, schema[i][1]))
    THEN [success |-> TRUE,
          data |-> [i \in 1..Len(schema) |->
                      <<schema[i][1], Get(parsed.obj, schema[i][1])>>]]
    ELSE [success |-> FALSE, data |-> <<>>]

\* ------------------------------------------- ai: facade and Gemini provider
\* a TranslationResponse, or (threw) an exception leaving the call
Failure(error) ==
    [threw |-> FALSE, success |-> FALSE, error |-> error, hasOutput |-> FALSE, output |-> <<>>]
Success(output) ==
    [threw |-> FALSE, success |-> TRUE, error |-> "", hasOutput |-> TRUE, output |-> output]
Thrown(message) ==
    [threw |-> TRUE, success |-> FALSE, error |-> message, hasOutput |-> FALSE, output |-> <<>>]

GatewayProviders == {"gemini", "openai", "claude"}

\* createProvider: the provider object, or the Error thrown by the switch
createProvider(provider) ==
    CASE provider = "gemini" -> [threw |-> FALSE, name |-> "gemini", error |-> ""]
      [] provider = "openai" ->
            [threw |-> TRUE, name |-> "", error |-> "OpenAI provider not yet implemented"]
      [] provider = "claude" ->
            [threw |-> TRUE, name |-> "", error |-> "Claude provider not yet implemented"]
      [] OTHER -> [threw |-> TRUE, name |-> "", error |-> "Unknown AI provider"]

\* what the endpoint does with one request: the fetch rejects ("throws"),
\* answers with a non-2xx status ("status"), with a 2xx body that is not
\* JSON ("badbody"), with no candidate text ("empty"), or with a reply text
NoEnv == [net |-> "none", reply |-> <<>>]
NetOutcomes == {"throws", "status", "badbody", "empty", "text"}

\* the call gets as far as extractJsonFromResponse(textResponse)
ReachesParse(apiKey, env) == apiKey /\ env.net = "text" /\ env.reply # <<>>

\* the try block of GeminiProvider.translate
TranslateTry(apiKey, env, schema) ==
    IF ~apiKey THEN Failure("Gemini API key not configured")
    ELSE IF env.net = "throws" THEN Thrown("fetch failed")
    ELSE IF env.net = "status" THEN Failure("Gemini API error")
    ELSE IF env.net = "badbody" THEN Thrown("Unexpected token in JSON")
    ELSE IF env.net = "empty" \/ env.reply = <<>> THEN Failure("No response from Gemini")
    ELSE LET parsed == extractJsonFromResponse(env.reply)
         IN  IF ~parsed.ok
             THEN Thrown("Failed to extract valid JSON from AI response")
             ELSE LET validated == SchemaSafeParse(schema, parsed)
                  IN  IF ~validated.success
                      THEN Failure("Schema validation failed")
                      ELSE Success(validated.data)

\* slip: the exception is passed on to the caller
TranslateCatch_Rethrows(thrown) == thrown

\* the catch clause of GeminiProvider.translate
TranslateCatch(thrown) == Failure(thrown.error)

\* GeminiProvider.translate
GeminiTranslate(apiKey, env, schema) ==
    LET attempt == TranslateTry(apiKey, env, schema)
    IN  IF attempt.threw THEN TranslateCatch(attempt) ELSE attempt

\* ------------------------------------------------------------- pipeline
\* slip: the status is compared with a misspelt literal
SkipCheck_StatusTypo(existingMetadata, sourceHash) ==
    /\ existingMetadata.present
    /\ existingMetadata.status = "complete"
    /\ existingMetadata.source_hash = sourceHash

\* slip: a matching hash is enough, whatever the status
SkipCheck_IgnoresStatus(existingMetadata, sourceHash) ==
    /\ existingMetadata.present
    /\ existingMetadata.source_hash = sourceHash

\* the skip test of processTranslation, step 3
SkipCheck(existingMetadata, sourceHash) ==
    /\ existingMetadata.present
    /\ existingMetadata.status = "completed"
    /\ existingMetadata.source_hash = sourceHash

\* slip: the currency check is made even when forced
NeedsCurrencyCheck_Always(forceUpdate) == TRUE

\* step 3 is entered unless options.forceUpdate
NeedsCurrencyCheck(forceUpdate) == ~forceUpdate

\* slip: the status is left at pending
CompletedMetadata_Pending(sourceHash, timestamp, model) ==
    [present |-> TRUE, status |-> "pending", source_hash |-> sourceHash,
     translated_at |-> timestamp, model |-> model, reviewed |-> FALSE,
     hasError |-> FALSE, error |-> ""]

\* metadata of step 9
CompletedMetadata(sourceHash, timestamp, model) ==
    [present |-> TRUE, status |-> "completed", source_hash |-> sourceHash,
     translated_at |-> timestamp, model |-> model, reviewed |-> FALSE,
     hasError |-> FALSE, error |-> ""]

NoResult == [returned |-> FALSE, success |-> FALSE, skipped |-> FALSE, error |-> ""]
Result(success, skipped, error) ==
    [returned |-> TRUE, success |-> success, skipped |-> skipped, error |-> error]

VARIABLES
    config,     \* deployed configuration: AI provider and collection field list
    docs,       \* source documents: Docs -> content
    i18n,       \* translation records: I18nRefs -> record
    task,       \* one pipeline pass (or direct store call) per task
    mutations,  \* number of source document writes so far
    deletes,    \* number of deleteTranslation calls so far
    probe,      \* one currency query against one stored record
    deleted,    \* source documents that no longer exist
    delivery,   \* one task of the dispatch transport and its handler run
    enq,        \* one call of an enqueue function
    loop,       \* one call of processAllLanguages
    gate,       \* one translation facade: its construction and one translate call
    calc        \* one application of the pure helpers to given inputs

vars == <<config, docs, i18n, task, mutations, deletes, probe, deleted, delivery, enq, loop,
          gate, calc>>

\* a currency query that has not been asked; its answers are "unset"
NoProbe == [rec |-> NoRecord, sourceHash |-> EmptyString,
            isCurrent |-> "unset", skip |-> "unset"]

\* a property that is absent from an object
Undefined == "undefined"

\* no task has been dispatched
NoDelivery ==
    [phase |-> "none",
     payload |-> [collectionPath |-> Undefined, documentId |-> Undefined,
                  targetLanguage |-> Undefined, batchId |-> Undefined,
                  config |-> [path |-> Undefined]],
     \* collectionConfig.forceUpdate and config.defaults.forceUpdate, each
     \* "true", "false" or absent
     forceUpdate |-> Undefined, defaultsForceUpdate |-> Undefined,
     attempt |-> 0,
     result |-> NoResult, signal |-> "none",
     \* history of the current attempt, observed only
     calls |-> 0, docReads |-> 0, fault |-> FALSE]

\* no enqueue function has been called
NoEnqueue ==
    [pc |-> "none", fn |-> "none", languages |-> <<>>, staggerDelayMs |-> 0,
     collectionPath |-> "",
     collectionConfig |-> [path |-> "", isCollectionGroup |-> FALSE],
     pairs |-> <<>>, batchId |-> "", taskIndex |-> 0,
     tasksEnqueued |-> 0, failed |-> 0, errors |-> <<>>,
     \* the transport: what it was handed, and whether it accepts every task
     sent |-> <<>>, reliable |-> TRUE,
     \* history of the call, observed only: the identifiers generated, and
     \* what the transport was offered and whether it accepted
     generated |-> 0, offered |-> <<>>]

\* processAllLanguages has not been called
NoLoop ==
    [pc |-> "none", languages |-> <<>>, force |-> FALSE, d |-> "d1",
     docData |-> <<>>, idx |-> 1, results |-> <<>>]

\* no facade has been asked for
NoGate ==
    [pc |-> "none", provider |-> "", apiKey |-> FALSE, targetLanguage |-> "",
     content |-> <<>>, schema |-> <<>>, env |-> NoEnv,
     parsed |-> SyntaxError, thrown |-> "", response |-> Failure(""),
     \* options.glossary of the translate call
     glossary |-> <<>>]

\* no helper has been applied
NoCalc ==
    [pc |-> "none", doc |-> <<>>, other |-> <<>>, fields |-> NoFields,
     sep |-> <<>>, hashes |-> <<>>, value |-> NullValue, second |-> NullValue,
     types |-> <<>>, decided |-> <<>>,
     \* a call of a store function on a document: its snapshot and its answer
     docId |-> "", snapshot |-> {}, locales |-> <<>>, status |-> <<>>]

IdleTask ==
    [pc |-> "idle", mode |-> "pass", d |-> "d1", l |-> "ms-MY",
     docData |-> <<>>, force |-> FALSE,
     existing |-> FALSE, resp |-> "none", respError |-> "", output |-> <<>>,
     ts |-> 0, inCatch |-> FALSE, caught |-> "",
     result |-> NoResult, outcome |-> "none",
     \* history of the pass, observed only
     reads |-> 0, writes |-> 0, gw |-> 0, fault |-> FALSE,
     sawStatus |-> "unread", sawCurrent |-> FALSE, sawSameHash |-> FALSE,
     sawExtra |-> FALSE,
     disturbed |-> FALSE,
     \* what the provider's endpoint did in the gateway call of the pass
     env |-> NoEnv]

\* the record an earlier completed pass over doc left for locale l, if any
EarlierRecord(doc, l, fields) ==
    LET sep == separateContent(doc, fields)
    IN  IF Len(sep.translatable) = 0 THEN NoRecord
        ELSE writeTranslation(TranslationOutput(sep.translatable, l),
                              sep.nonTranslatable,
                              CompletedMetadata(hashContent(sep.translatable), 0, GeminiModel))

Init ==
    /\ config \in [provider : Providers, fields : FieldsOptions]
    /\ docs = [d \in Docs |-> DocHello]
    /\ i18n = [r \in I18nRefs |-> NoRecord]
    /\ task = [t \in Tasks |-> IdleTask]
    /\ mutations = 0
    /\ deletes = 0
    /\ probe = NoProbe
    /\ deleted = {}
    /\ gate = NoGate
    /\ calc = NoCalc
    /\ delivery = NoDelivery
    /\ enq = NoEnqueue
    /\ loop = NoLoop

Rec(t) == i18n[getI18nRef(task[t].d, task[t].l)]
Sep(t) == separateContent(task[t].docData, config.fields)
\* slip: the whole document is hashed, not its translatable part
SourceHash_WholeDocument(t) == hashContent(task[t].docData)

\* step 2: const sourceHash = hashContent(translatable)
SourceHash(t) == hashContent(Sep(t).translatable)

\* Timestamp.now(): the instant is named after the pass that asked for it
Index(t) == CHOOSE n \in 1..Len(TaskOrder) : TaskOrder[n] = t
Now(t) == Index(t)

\* task names are interchangeable: they are taken into use in order
Startable(t) ==
    /\ task[t].pc = "idle"
    /\ \A n \in 1..Len(TaskOrder) : n < Index(t) => task[TaskOrder[n]].pc # "idle"

\* documents and locales are interchangeable too: the first task is
\* delivered for the first pair, the later ones for any pair
Targets(t) ==
    IF Index(t) = 1 THEN {<<TaskOrder[1], "d1", "ms-MY">>}
    ELSE {<<t, d, l>> : d \in Docs, l \in Locales}

\* equality of two objects as maps, whatever their insertion order
ObjEq(a, b) ==
    /\ KeySet(a) = KeySet(b)
    /\ \A k \in KeySet(a) : Get(a, k) = Get(b, k)

\* the translatable source content a completed record's translated fields
\* were produced from: its fields written in the record's locale, each text
\* put back in the source language
RECURSIVE SourceOf(_, _)
SourceOf(fields, l) ==
    IF fields = <<>> THEN <<>>
    ELSE LET value == fields[1][2]
             translated == \E i \in 1..Len(value.v) : value.v[i].lang = l
         IN  IF translated
             THEN <<<<fields[1][1], TranslateValue(value, "src")>>>> \o SourceOf(Tail(fields), l)
             ELSE SourceOf(Tail(fields), l)

\* what the pass would see in the store at this instant (observation only)
Observe(t) ==
    [task[t] EXCEPT
        !.sawStatus = IF Rec(t).exists THEN Rec(t).melaka.status ELSE "missing",
        !.sawSameHash = Rec(t).exists /\ Rec(t).melaka.source_hash = SourceHash(t),
        !.sawExtra = KeySet(Rec(t).fields) \ KeySet(task[t].docData) # {},
        !.sawCurrent = /\ Rec(t).exists
                       /\ Rec(t).melaka.status = "completed"
                       /\ ObjEq(SourceOf(Rec(t).fields, task[t].l), Sep(t).translatable)]

Active(t) == task[t].pc \notin {"idle", "done", "raised"}
Ended(t) == task[t].pc \in {"done", "raised"}

SetTask(t, tk) == task' = [task EXCEPT ![t] = tk]

\* return of processTranslation
Return(tk, result, outcome) ==
    [tk EXCEPT !.pc = "done", !.result = result, !.outcome = outcome,
               \* the locals of the call go out of scope
               !.existing = FALSE, !.ts = 0, !.caught = "", !.respError = "",
               !.output = <<>>]

\* the call rejects: the exception leaves the function
Raise(tk) ==
    [tk EXCEPT !.pc = "raised", !.outcome = "raised",
               !.existing = FALSE, !.ts = 0, !.caught = "", !.respError = "",
               !.output = <<>>]

\* an exception inside the try block: control moves to the catch clause
Throw(tk, message) == [tk EXCEPT !.pc = "catch", !.caught = message]

\* an exception inside markTranslationFailed, by call site: the direct call
\* rejects, the call in the try block lands in the catch clause, the call in
\* the catch clause is swallowed and the failure result is returned
MarkThrow(tk, message) ==
    IF tk.mode = "mark"
    THEN Raise(tk)
    ELSE IF tk.inCatch
    THEN Return(tk, Result(FALSE, FALSE, tk.caught), "failed")
    ELSE Throw(tk, message)

\* markTranslationFailed resolved, by call site
MarkReturn(tk) ==
    IF tk.mode = "mark"
    THEN Return(tk, NoResult, "marked")
    ELSE IF tk.inCatch
    THEN Return(tk, Result(FALSE, FALSE, tk.caught), "failed")
    ELSE Return(tk, Result(FALSE, FALSE, tk.respError), "failed")

\* handleTranslationTask, steps 2-3: reload the live document
HandleTask(t, d, l, force) ==
    /\ Startable(t)
    /\ SetTask(t, [task[t] EXCEPT !.pc = "loaded", !.mode = "pass",
                                  !.d = d, !.l = l,
                                  !.docData = docs[d], !.force = force])
    /\ UNCHANGED <<gate, calc, deleted, delivery, enq, loop, probe, config, docs, i18n, mutations, deletes>>

\* processTranslation, steps 1-3 up to the first await
Classify(t) ==
    /\ task[t].pc = "loaded"
    /\ LET tk == Observe(t)
       IN  IF Len(Sep(t).translatable) = 0
           THEN SetTask(t, Return(tk, Result(TRUE, TRUE, ""), "skipped_empty"))
           ELSE IF NeedsCurrencyCheck(task[t].force)
           THEN SetTask(t, [tk EXCEPT !.pc = "read"])
           ELSE SetTask(t, [tk EXCEPT !.pc = "translate"])
    /\ UNCHANGED <<gate, calc, deleted, delivery, enq, loop, probe, config, docs, i18n, mutations, deletes>>

\* processTranslation, step 3: readMelakaMetadata and the currency test
ReadMetadata(t) ==
    /\ task[t].pc = "read"
    /\ \/ SetTask(t, Throw([task[t] EXCEPT !.fault = TRUE], "store read failed"))
       \/ LET tk == [Observe(t) EXCEPT !.reads = @ + 1]
              existingMetadata == readMelakaMetadata(Rec(t))
          IN  IF SkipCheck(existingMetadata, SourceHash(t))
              THEN SetTask(t, Return(tk, Result(TRUE, TRUE, ""), "skipped_current"))
              ELSE SetTask(t, [tk EXCEPT !.pc = "translate"])
    /\ UNCHANGED <<gate, calc, deleted, delivery, enq, loop, probe, config, docs, i18n, mutations, deletes>>

\* processTranslation, steps 4-7: build the facade and call the gateway
Translate(t) ==
    /\ task[t].pc = "translate"
    /\ IF config.provider # "gemini"
       THEN SetTask(t, Throw(task[t], "provider not yet implemented"))
       ELSE \/ SetTask(t, [task[t] EXCEPT !.pc = "timestamp", !.gw = @ + 1,
                                          !.resp = "ok",
                                          !.output = TranslationOutput(Sep(t).translatable,
                                                                       task[t].l)])
            \/ SetTask(t, [task[t] EXCEPT !.pc = "timestamp", !.gw = @ + 1,
                                          !.resp = "fail",
                                          !.respError = "Gemini API error"])
    /\ UNCHANGED <<gate, calc, deleted, delivery, enq, loop, probe, config, docs, i18n, mutations, deletes>>

\* processTranslation, step 8: options.timestamp || await getTimestamp()
GetTimestamp(t) ==
    /\ task[t].pc = "timestamp"
    /\ \/ SetTask(t, Throw([task[t] EXCEPT !.fault = TRUE], "timestamp failed"))
       \/ SetTask(t, [task[t] EXCEPT !.ts = Now(t),
                        !.pc = IF task[t].resp = "fail" THEN "mf_get" ELSE "write"])
    /\ UNCHANGED <<gate, calc, deleted, delivery, enq, loop, probe, config, docs, i18n, mutations, deletes>>

\* markTranslationFailed: const existing = await i18nRef.get()
MarkGet(t) ==
    /\ task[t].pc = "mf_get"
    /\ \/ SetTask(t, MarkThrow([task[t] EXCEPT !.fault = TRUE], "store read failed"))
       \/ SetTask(t, [task[t] EXCEPT !.pc = "mf_write", !.reads = @ + 1,
                                     !.existing = Rec(t).exists])
    /\ UNCHANGED <<gate, calc, deleted, delivery, enq, loop, probe, config, docs, i18n, mutations, deletes>>

\* the error message recorded by this call of markTranslationFailed
MarkError(tk) == IF tk.inCatch THEN tk.caught ELSE tk.respError

\* markTranslationFailed: update of the existing document, or set of a
\* minimal one; update rejects when the document is gone
MarkWrite(t) ==
    /\ task[t].pc = "mf_write"
    /\ \/ /\ SetTask(t, MarkThrow([task[t] EXCEPT !.fault = TRUE], "store write failed"))
          /\ UNCHANGED i18n
       \/ /\ task[t].existing
          /\ ~Rec(t).exists
          /\ SetTask(t, MarkThrow(task[t], "NOT_FOUND"))
          /\ UNCHANGED i18n
       \/ /\ task[t].existing
          /\ Rec(t).exists
          /\ LET new == MarkFailedUpdate(Rec(t), MarkError(task[t]), task[t].ts)
             IN  /\ i18n' = [i18n EXCEPT ![getI18nRef(task[t].d, task[t].l)] = new]
                 /\ SetTask(t, MarkReturn([task[t] EXCEPT !.writes = @ + 1]))
       \/ /\ ~task[t].existing
          /\ LET new == MarkFailedCreate(MarkError(task[t]), task[t].ts)
             IN  /\ i18n' = [i18n EXCEPT ![getI18nRef(task[t].d, task[t].l)] =
                                                DocSet(Rec(t), new)]
                 /\ SetTask(t, MarkReturn([task[t] EXCEPT !.writes = @ + 1]))
    /\ UNCHANGED <<gate, calc, deleted, delivery, enq, loop, probe, config, docs, mutations, deletes>>

\* processTranslation, steps 9-10: metadata and writeTranslation
WriteTranslation(t) ==
    /\ task[t].pc = "write"
    /\ \/ /\ SetTask(t, Throw([task[t] EXCEPT !.fault = TRUE], "store write failed"))
          /\ UNCHANGED i18n
       \/ LET metadata == CompletedMetadata(SourceHash(t), task[t].ts, GeminiModel)
              new == writeTranslation(task[t].output, Sep(t).nonTranslatable, metadata)
          IN  /\ i18n' = [i18n EXCEPT ![getI18nRef(task[t].d, task[t].l)] =
                                             DocSet(Rec(t), new)]
              /\ SetTask(t, Return([task[t] EXCEPT !.writes = @ + 1],
                                   Result(TRUE, FALSE, ""), "completed"))
    /\ UNCHANGED <<gate, calc, deleted, delivery, enq, loop, probe, config, docs, mutations, deletes>>

\* the catch clause: options.timestamp || await getTimestamp(), outside any try
CatchTimestamp(t) ==
    /\ task[t].pc = "catch"
    /\ \/ SetTask(t, Raise([task[t] EXCEPT !.fault = TRUE]))
       \/ SetTask(t, [task[t] EXCEPT !.ts = Now(t), !.inCatch = TRUE,
                                     !.pc = "mf_get"])
    /\ UNCHANGED <<gate, calc, deleted, delivery, enq, loop, probe, config, docs, i18n, mutations, deletes>>

\* a direct call of markTranslationFailed(docRef, locale, error, timestamp)
CallMarkFailed(t, d, l) ==
    /\ Startable(t)
    /\ SetTask(t, [task[t] EXCEPT !.pc = "mf_get", !.mode = "mark",
                                  !.d = d, !.l = l, !.ts = Now(t),
                                  !.respError = "marked by caller"])
    /\ UNCHANGED <<gate, calc, deleted, delivery, enq, loop, probe, config, docs, i18n, mutations, deletes>>

\* deleteTranslation(docRef, locale)
DeleteTranslation(d, l) ==
    /\ deletes < MaxDeletes
    /\ i18n[getI18nRef(d, l)].exists   \* deleting a missing document changes nothing
    /\ deletes' = deletes + 1
    /\ i18n' = [i18n EXCEPT ![getI18nRef(d, l)] = NoRecord]
    /\ task' = [t \in Tasks |->
                  IF Active(t) /\ task[t].d = d /\ task[t].l = l
                  THEN [task[t] EXCEPT !.disturbed = TRUE]
                  ELSE task[t]]
    /\ UNCHANGED <<gate, calc, deleted, delivery, enq, loop, probe, config, docs, mutations>>

\* the documents of docRef.collection('i18n') that exist
I18nSnapshot(store, d) == {r \in I18nRefs : r[1] = d /\ store[r].exists}

\* slip: the deletes are sent one by one and the first failure stops them
BatchCommit_OneByOne(store, refs) ==
    IF refs = {} THEN store
    ELSE [store EXCEPT ![CHOOSE r \in refs : TRUE] = NoRecord]

\* batch.delete(doc.ref) for each document of the snapshot, batch.commit()
BatchCommit(store, refs) ==
    [r \in I18nRefs |-> IF r \in refs THEN NoRecord ELSE store[r]]

\* deleteAllTranslations(docRef) is called
CallDeleteAll(d) ==
    /\ calc.pc = "none"
    /\ calc' = [calc EXCEPT !.pc = "da_get", !.docId = d]
    /\ UNCHANGED <<gate, deleted, delivery, enq, loop, probe, config, docs, i18n, task,
                   mutations, deletes>>

\* await i18nCollection.get()
DeleteAllGet ==
    /\ calc.pc = "da_get"
    /\ \/ calc' = [calc EXCEPT !.pc = "da_commit", !.snapshot = I18nSnapshot(i18n, calc.docId)]
       \/ calc' = [calc EXCEPT !.pc = "da_threw"]
    /\ UNCHANGED <<gate, deleted, delivery, enq, loop, probe, config, docs, i18n, task,
                   mutations, deletes>>

\* await batch.commit(): every delete of the batch is applied, or none is
DeleteAllCommit ==
    /\ calc.pc = "da_commit"
    /\ \/ /\ calc' = [calc EXCEPT !.pc = "da_done"]
          /\ i18n' = BatchCommit(i18n, calc.snapshot)
          /\ task' = [t \in Tasks |->
                        IF Active(t) /\ <<task[t].d, task[t].l>> \in calc.snapshot
                        THEN [task[t] EXCEPT !.disturbed = TRUE]
                        ELSE task[t]]
       \/ /\ calc' = [calc EXCEPT !.pc = "da_threw"]
          /\ UNCHANGED <<i18n, task>>
    /\ UNCHANGED <<gate, deleted, delivery, enq, loop, probe, config, docs,
                   mutations, deletes>>

\* metadata?.status || 'missing'
StatusOrMissing(metadata) ==
    IF metadata.present /\ metadata.status # "" THEN metadata.status ELSE "missing"

\* getTranslationStatus(docRef, locales) is called
CallGetTranslationStatus(d, locales) ==
    /\ calc.pc = "none"
    /\ calc' = [calc EXCEPT !.pc = "gs_loop", !.docId = d, !.locales = locales]
    /\ UNCHANGED <<gate, deleted, delivery, enq, loop, probe, config, docs, i18n, task,
                   mutations, deletes>>

\* one iteration of its loop: await readMelakaMetadata(docRef, locale);
\* after the last locale the map is returned
StatusRead ==
    /\ calc.pc = "gs_loop"
    /\ IF Len(calc.status) = Len(calc.locales)
       THEN calc' = [calc EXCEPT !.pc = "gs_done"]
       ELSE LET locale == calc.locales[Len(calc.status) + 1]
                metadata == readMelakaMetadata(i18n[getI18nRef(calc.docId, locale)])
            IN  \/ calc' = [calc EXCEPT !.status = Append(@, <<locale, StatusOrMissing(metadata)>>)]
                \/ calc' = [calc EXCEPT !.pc = "gs_threw"]
    /\ UNCHANGED <<gate, deleted, delivery, enq, loop, probe, config, docs, i18n, task,
                   mutations, deletes>>

\* a write of the source document by the application
Mutate(d, content) ==
    /\ mutations < MaxMutations
    /\ docs[d] # content
    /\ mutations' = mutations + 1
    /\ docs' = [docs EXCEPT ![d] = content]
    /\ UNCHANGED <<gate, calc, deleted, delivery, enq, loop, probe, config, i18n, task, deletes>>

Next ==
    \/ \E t \in Tasks, force \in BOOLEAN : \E x \in Targets(t) :
          HandleTask(t, x[2], x[3], force)
    \/ \E t \in Tasks : Classify(t)
    \/ \E t \in Tasks : ReadMetadata(t)
    \/ \E t \in Tasks : Translate(t)
    \/ \E t \in Tasks : GetTimestamp(t)
    \/ \E t \in Tasks : MarkGet(t)
    \/ \E t \in Tasks : MarkWrite(t)
    \/ \E t \in Tasks : WriteTranslation(t)
    \/ \E t \in Tasks : CatchTimestamp(t)
    \/ \E t \in Tasks : \E x \in Targets(t) : CallMarkFailed(t, x[2], x[3])
    \/ \E d \in Docs, l \in Locales : DeleteTranslation(d, l)
    \/ \E d \in Docs, content \in Contents : Mutate(d, content)

Spec == Init /\ [][Next]_vars

\* ------------------------------------- passes over a store already in use
\* what earlier passes over any earlier version of the document can have left for
\* locale l: nothing, a completed record, that record marked failed
\* afterwards, or the minimal record of a failure on an empty slot
StoredRecords(l, fields) ==
    LET earlier == {EarlierRecord(c, l, fields) : c \in {DocHello, DocHola, DocWide}} \ {NoRecord}
    IN  {NoRecord, MarkFailedCreate("Gemini API error", 0)}
          \cup earlier
          \cup {MarkFailedUpdate(rec, "Gemini API error", 0) : rec \in earlier}

InitLater ==
    /\ config \in [provider : Providers, fields : FieldsOptions]
    /\ docs = [d \in Docs |-> DocHello]
    /\ \E first \in StoredRecords("ms-MY", config.fields) :
          i18n = [r \in I18nRefs |-> IF r = <<"d1", "ms-MY">> THEN first ELSE NoRecord]
    /\ task = [t \in Tasks |-> IdleTask]
    /\ mutations = 0
    /\ deletes = 0
    /\ probe = NoProbe
    /\ deleted = {}
    /\ gate = NoGate
    /\ calc = NoCalc
    /\ delivery = NoDelivery
    /\ enq = NoEnqueue
    /\ loop = NoLoop

\* the passes of the task handler alone
NextLater ==
    \/ \E t \in Tasks, force \in BOOLEAN : \E x \in Targets(t) :
          HandleTask(t, x[2], x[3], force)
    \/ \E t \in Tasks : Classify(t)
    \/ \E t \in Tasks : ReadMetadata(t)
    \/ \E t \in Tasks : Translate(t)
    \/ \E t \in Tasks : GetTimestamp(t)
    \/ \E t \in Tasks : MarkGet(t)
    \/ \E t \in Tasks : MarkWrite(t)
    \/ \E t \in Tasks : WriteTranslation(t)
    \/ \E t \in Tasks : CatchTimestamp(t)

SpecLater == InitLater /\ [][NextLater]_vars

\* ------------------------------------------- task handler and its transport
\* retryConfig.maxAttempts of the generated onTaskDispatched function
maxAttempts == 3

\* config.collections, by path
Collections == {"articles", "posts"}

\* the payloads a transport can deliver: well-formed ones, and ones with a
\* property missing or empty
TaskPayloads ==
    [collectionPath : {"articles", "drafts", "", Undefined},
     documentId : {"d1", "", Undefined},
     targetLanguage : {"ms-MY", "zh-CN", "", Undefined},
     batchId : {"batch_1", "", Undefined},
     config : {[path |-> "articles"], [path |-> ""]}]

\* z.string().min(1)
IsNonEmptyString(x) == x \notin {"", Undefined}

\* slip: .min(1) is left out, empty strings pass
safeParse_AllowsEmpty(payload) ==
    /\ payload.collectionPath # Undefined
    /\ payload.documentId # Undefined
    /\ payload.targetLanguage # Undefined
    /\ payload.config.path # Undefined
    /\ payload.batchId # Undefined

\* TranslationTaskPayloadSchema.safeParse(payload).success
safeParse(payload) ==
    /\ IsNonEmptyString(payload.collectionPath)
    /\ IsNonEmptyString(payload.documentId)
    /\ IsNonEmptyString(payload.targetLanguage)
    /\ IsNonEmptyString(payload.config.path)
    /\ IsNonEmptyString(payload.batchId)

\* config.collections.find((c) => c.path === collectionPath) is defined
findCollectionConfig(collections, collectionPath) == collectionPath \in collections

\* an optional glossary of the configuration: absent, or a map of terms
NoGlossary == [present |-> FALSE, terms |-> <<>>]
Glossary(terms) == [present |-> TRUE, terms |-> terms]

\* shared || {}
OrEmpty(glossary) == IF glossary.present THEN glossary.terms ELSE <<>>

\* slip: the spreads are swapped, the shared glossary wins
mergeGlossaries_SharedWins(shared, collection) ==
    ObjSpread(OrEmpty(collection), OrEmpty(shared))

\* { ...(shared || {}), ...(collection || {}) }
mergeGlossaries(shared, collection) ==
    ObjSpread(OrEmpty(shared), OrEmpty(collection))

\* an optional boolean of the configuration: z.boolean().optional()
OptionalFlags == {"true", "false", Undefined}

\* { forceUpdate: collectionConfig.forceUpdate } as processTranslation reads
\* it: !options.forceUpdate is true of false and of undefined
OptionsForceUpdate(forceUpdate) == forceUpdate = "true"

\* collection.forceUpdate ?? rootConfig.defaults?.forceUpdate ?? false
getEffectiveForceUpdate(defaultsForceUpdate, collectionForceUpdate) ==
    IF collectionForceUpdate # Undefined THEN collectionForceUpdate
    ELSE IF defaultsForceUpdate # Undefined THEN defaultsForceUpdate
    ELSE "false"

\* docSnapshot.exists
DocExists(documentId) == documentId \in Docs /\ documentId \notin deleted

InvalidPayloadResult == Result(FALSE, FALSE, "Invalid task payload")

\* slip: a missing document is reported as a failure
MissingDocumentResult_Failure == Result(FALSE, FALSE, "Document no longer exists")

MissingDocumentResult == Result(TRUE, TRUE, "Document no longer exists")

NotConfiguredResult == Result(FALSE, FALSE, "Collection not configured")

\* slip: skipped results are not exempted
ShouldThrow_IgnoresSkipped(result) == ~result.success \/ result.skipped

\* if (!result.success && !result.skipped) throw
ShouldThrow(result) == ~result.success /\ ~result.skipped

\* slip: maxAttempts is taken for the number of retries after the first attempt
RetryAllowed_CountsRetries(attempts) == attempts <= maxAttempts

\* retryConfig: a thrown attempt is retried while fewer than maxAttempts
\* attempts were made
RetryAllowed(attempts) == attempts < maxAttempts

\* the task that runs the pipeline pass of the handler
HandlerTask == TaskOrder[1]

InitHandler ==
    /\ config \in [provider : Providers, fields : FieldsOptions]
    /\ docs = [d \in Docs |-> DocHello]
    /\ i18n = [r \in I18nRefs |-> NoRecord]
    /\ task = [t \in Tasks |-> IdleTask]
    /\ mutations = 0
    /\ deletes = 0
    /\ probe = NoProbe
    /\ deleted = {}
    /\ gate = NoGate
    /\ calc = NoCalc
    /\ delivery \in {[NoDelivery EXCEPT !.phase = "queued", !.payload = p,
                                         !.forceUpdate = f] :
                        p \in TaskPayloads, f \in OptionalFlags}
    /\ enq = NoEnqueue
    /\ loop = NoLoop

\* the transport dispatches the task; handleTranslationTask, step 1
Dispatch ==
    /\ delivery.phase = "queued"
    /\ IF ~safeParse(delivery.payload)
       THEN delivery' = [delivery EXCEPT !.phase = "returned",
                                         !.result = InvalidPayloadResult]
       ELSE delivery' = [delivery EXCEPT !.phase = "get"]
    /\ UNCHANGED <<gate, calc, config, docs, i18n, task, mutations, deletes, probe, deleted, enq, loop>>

\* handleTranslationTask, steps 2-6: read the document, find the collection
\* configuration and call processTranslation
HandlerGet ==
    /\ delivery.phase = "get"
    /\ LET p == delivery.payload
       IN  \/ /\ delivery' = [delivery EXCEPT !.phase = "rejected", !.fault = TRUE]
              /\ UNCHANGED task
           \/ /\ ~DocExists(p.documentId)
              /\ delivery' = [delivery EXCEPT !.phase = "returned", !.docReads = @ + 1,
                                               !.result = MissingDocumentResult]
              /\ UNCHANGED task
           \/ /\ DocExists(p.documentId)
              /\ ~findCollectionConfig(Collections, p.collectionPath)
              /\ delivery' = [delivery EXCEPT !.phase = "returned", !.docReads = @ + 1,
                                               !.result = NotConfiguredResult]
              /\ UNCHANGED task
           \/ /\ DocExists(p.documentId)
              /\ findCollectionConfig(Collections, p.collectionPath)
              /\ delivery' = [delivery EXCEPT !.phase = "pipeline", !.docReads = @ + 1,
                                               !.calls = @ + 1]
              /\ SetTask(HandlerTask,
                         [task[HandlerTask] EXCEPT !.pc = "loaded", !.mode = "pass",
                                                   !.d = p.documentId,
                                                   !.l = p.targetLanguage,
                                                   !.docData = docs[p.documentId],
                                                   !.force = OptionsForceUpdate(delivery.forceUpdate)])
    /\ UNCHANGED <<gate, calc, config, docs, i18n, mutations, deletes, probe, deleted, enq, loop>>

\* processTranslation settles and handleTranslationTask with it
HandlerReturn ==
    /\ delivery.phase = "pipeline"
    /\ Ended(HandlerTask)
    /\ IF task[HandlerTask].pc = "done"
       THEN delivery' = [delivery EXCEPT !.phase = "returned",
                                         !.result = task[HandlerTask].result]
       ELSE delivery' = [delivery EXCEPT !.phase = "rejected"]
    /\ UNCHANGED <<gate, calc, config, docs, i18n, task, mutations, deletes, probe, deleted, enq, loop>>

\* the callback of onTaskDispatched ends: it throws or not, and the transport
\* retries a thrown attempt until maxAttempts attempts were made
Settle ==
    /\ delivery.phase \in {"returned", "rejected"}
    /\ LET throws == delivery.phase = "rejected" \/ ShouldThrow(delivery.result)
       IN  IF ~throws
           THEN /\ delivery' = [delivery EXCEPT !.phase = "acked", !.signal = "ok"]
                /\ UNCHANGED task
           ELSE IF RetryAllowed(delivery.attempt + 1)
           THEN /\ delivery' = [delivery EXCEPT !.phase = "queued", !.signal = "thrown",
                                                !.attempt = @ + 1,
                                                !.result = NoResult,
                                                !.calls = 0, !.docReads = 0,
                                                !.fault = FALSE]
                /\ SetTask(HandlerTask, IdleTask)
           ELSE /\ delivery' = [delivery EXCEPT !.phase = "dead", !.signal = "thrown",
                                                !.attempt = @ + 1]
                /\ UNCHANGED task
    /\ UNCHANGED <<gate, calc, config, docs, i18n, mutations, deletes, probe, deleted, enq, loop>>

\* the application deletes a source document
DeleteDocument(d) ==
    /\ d \notin deleted
    /\ deleted' = deleted \cup {d}
    /\ UNCHANGED <<gate, calc, config, docs, i18n, task, mutations, deletes, probe, delivery, enq, loop>>

NextHandler ==
    \/ Dispatch
    \/ HandlerGet
    \/ HandlerReturn
    \/ Settle
    \/ \E d \in Docs : DeleteDocument(d)
    \/ \E t \in Tasks : Classify(t)
    \/ \E t \in Tasks : ReadMetadata(t)
    \/ \E t \in Tasks : Translate(t)
    \/ \E t \in Tasks : GetTimestamp(t)
    \/ \E t \in Tasks : MarkGet(t)
    \/ \E t \in Tasks : MarkWrite(t)
    \/ \E t \in Tasks : WriteTranslation(t)
    \/ \E t \in Tasks : CatchTimestamp(t)

SpecHandler == InitHandler /\ [][NextHandler]_vars

\* ------------------------------------------------------------ task queue
\* config.languages of a deployment
LanguageLists == {<<"ms-MY">>, <<"ms-MY", "zh-CN">>, <<"ms-MY", "zh-CN", "ja-JP">>}

\* options.staggerDelayMs; 0 stands for an absent (or zero) option
StaggerOptions == {0, 500, 1000}

\* the documents of the collection, in the order of the query snapshot
DocOrder == <<"d1", "d2">>
SnapshotDocs == SelectSeq(DocOrder, LAMBDA d : d \notin deleted)

\* generateBatchId(): the n-th identifier handed out
generateBatchId(n) == <<"batch", n>>

\* slip: documentId and collectionPath change places
createTaskPayload_SwapsIds(collectionPath, documentId, targetLanguage, collectionConfig, batchId) ==
    [collectionPath |-> documentId, documentId |-> collectionPath,
     targetLanguage |-> targetLanguage, config |-> collectionConfig,
     batchId |-> batchId]

createTaskPayload(collectionPath, documentId, targetLanguage, collectionConfig, batchId) ==
    [collectionPath |-> collectionPath, documentId |-> documentId,
     targetLanguage |-> targetLanguage, config |-> collectionConfig,
     batchId |-> batchId]

\* the configured collections: a flat one, and a collection group
FlatCollection == [path |-> "articles", isCollectionGroup |-> FALSE]
GroupCollection == [path |-> "posts", isCollectionGroup |-> TRUE]

\* doc.ref.parent.path of a document the query returned: the flat collection
\* itself; for the group, a subcollection of a user or the top-level
\* collection of that name
ParentPath(collectionConfig, docId) ==
    IF ~collectionConfig.isCollectionGroup THEN collectionConfig.path
    ELSE IF docId = "d1" THEN "users/u1/posts" ELSE "posts"

\* collectionConfig.isCollectionGroup ? doc.ref.parent.path : collectionConfig.path
CollectionPathOf(collectionConfig, docId) ==
    IF collectionConfig.isCollectionGroup THEN ParentPath(collectionConfig, docId)
    ELSE collectionConfig.path

\* options.staggerDelayMs || 100
StaggerDelay(staggerDelayMs) == IF staggerDelayMs = 0 THEN 100 ELSE staggerDelayMs

\* Math.floor((index * staggerDelay) / 1000)
ScheduleDelaySeconds(index, staggerDelay) == (index * staggerDelay) \div 1000

\* the (document, language) pairs in loop order: documents outer, languages inner
RECURSIVE PairsOf(_, _)
PairsOf(docIds, languages) ==
    IF docIds = <<>> THEN <<>>
    ELSE [i \in 1..Len(languages) |-> <<docIds[1], languages[i]>>]
            \o PairsOf(Tail(docIds), languages)

InitEnqueue ==
    /\ config \in [provider : {"gemini"}, fields : {NoFields}]
    /\ docs = [d \in Docs |-> DocHello]
    /\ i18n = [r \in I18nRefs |-> NoRecord]
    /\ task = [t \in Tasks |-> IdleTask]
    /\ mutations = 0
    /\ deletes = 0
    /\ probe = NoProbe
    /\ deleted \in {{}, {"d2"}}
    /\ gate = NoGate
    /\ calc = NoCalc
    /\ delivery = NoDelivery
    /\ enq \in {[NoEnqueue EXCEPT !.languages = ls, !.staggerDelayMs = ms,
                                   !.reliable = r,
                                   !.collectionPath = "articles",
                                   !.collectionConfig = FlatCollection] :
                    ls \in LanguageLists, ms \in StaggerOptions, r \in BOOLEAN}
    /\ loop = NoLoop

\* enqueueDocumentTranslation up to its loop
CallEnqueueDocument(documentId) ==
    /\ enq.pc = "none"
    /\ enq' = [enq EXCEPT !.pc = "loop", !.fn = "document",
                          !.batchId = generateBatchId(enq.generated + 1),
                          !.generated = @ + 1,
                          !.pairs = PairsOf(<<documentId>>, enq.languages)]
    /\ UNCHANGED <<gate, calc, config, docs, i18n, task, mutations, deletes, probe, deleted, delivery, loop>>

\* enqueueCollectionTranslation up to its loops: the batch identifier and
\* the id-only query of the collection
CallEnqueueCollection ==
    /\ enq.pc = "none"
    /\ enq' = [enq EXCEPT !.pc = "loop", !.fn = "collection",
                          !.batchId = generateBatchId(enq.generated + 1),
                          !.generated = @ + 1,
                          !.pairs = PairsOf(SnapshotDocs, enq.languages)]
    /\ UNCHANGED <<gate, calc, config, docs, i18n, task, mutations, deletes, probe, deleted, delivery, loop>>

\* slip: the rejection is not caught, the call rejects with it
EnqueueCatch_Rethrows(e, pair) == [e EXCEPT !.pc = "threw"]

\* catch (error) { failed++; errors.push(`Failed to enqueue ...`) }, and the
\* loop goes on with the next pair
EnqueueCatch(e, pair) ==
    [e EXCEPT !.failed = @ + 1,
              !.errors = Append(@, <<"Failed to enqueue", pair[1], pair[2]>>),
              !.taskIndex = @ + 1]

\* one iteration of the loop: build the payload and await queue.enqueue;
\* after the last pair the function returns its result
EnqueueStep ==
    /\ enq.pc = "loop"
    /\ IF enq.taskIndex = Len(enq.pairs)
       THEN enq' = [enq EXCEPT !.pc = "done"]
       ELSE LET pair == enq.pairs[enq.taskIndex + 1]
                collectionPath == IF enq.fn = "collection"
                                  THEN CollectionPathOf(enq.collectionConfig, pair[1])
                                  ELSE enq.collectionPath
                payload == createTaskPayload(collectionPath, pair[1], pair[2],
                                             enq.collectionConfig, enq.batchId)
                delaySeconds == ScheduleDelaySeconds(enq.taskIndex,
                                                     StaggerDelay(enq.staggerDelayMs))
            IN  \E accepted \in (IF enq.reliable THEN {TRUE} ELSE BOOLEAN) :
                  LET offered == [enq EXCEPT
                                      !.offered = Append(@, <<pair[1], pair[2], accepted>>)]
                  IN  enq' = IF accepted
                             THEN [offered EXCEPT
                                      !.sent = Append(@, [payload |-> payload,
                                                          scheduleDelaySeconds |-> delaySeconds,
                                                          index |-> enq.taskIndex]),
                                      !.tasksEnqueued = @ + 1,
                                      !.taskIndex = @ + 1]
                             ELSE EnqueueCatch(offered, pair)
    /\ UNCHANGED <<gate, calc, config, docs, i18n, task, mutations, deletes, probe, deleted, delivery, loop>>

NextEnqueue ==
    \/ \E d \in Docs : CallEnqueueDocument(d)
    \/ CallEnqueueCollection
    \/ EnqueueStep

SpecEnqueue == InitEnqueue /\ [][NextEnqueue]_vars

\* ------------------------------------------------------ processAllLanguages
\* config.languages of a deployment that translates into the stored locales
LoopLanguages == {<<"ms-MY">>, <<"ms-MY", "zh-CN">>, <<"zh-CN", "ms-MY">>}

InitAll ==
    /\ config \in [provider : Providers, fields : FieldsOptions]
    /\ docs \in [Docs -> {DocHello, DocViews}]
    /\ i18n = [r \in I18nRefs |-> NoRecord]
    /\ task = [t \in Tasks |-> IdleTask]
    /\ mutations = 0
    /\ deletes = 0
    /\ probe = NoProbe
    /\ deleted = {}
    /\ gate = NoGate
    /\ calc = NoCalc
    /\ delivery = NoDelivery
    /\ enq = NoEnqueue
    /\ loop \in {[NoLoop EXCEPT !.languages = ls, !.force = f] :
                     ls \in LoopLanguages, f \in BOOLEAN}

\* the pass of the language the loop is at
LoopTask == TaskOrder[loop.idx]

\* processAllLanguages(docRef, docData, config, collectionConfig, options)
CallProcessAll(d) ==
    /\ loop.pc = "none"
    /\ loop' = [loop EXCEPT !.pc = "running", !.d = d, !.docData = docs[d]]
    /\ UNCHANGED <<gate, calc, config, docs, i18n, task, mutations, deletes, probe, deleted, delivery, enq>>

\* the loop calls processTranslation for the next language
LoopStart ==
    /\ loop.pc = "running"
    /\ loop.idx <= Len(loop.languages)
    /\ task[LoopTask].pc = "idle"
    /\ SetTask(LoopTask, [task[LoopTask] EXCEPT !.pc = "loaded", !.mode = "pass",
                                               !.d = loop.d,
                                               !.l = loop.languages[loop.idx],
                                               !.docData = loop.docData,
                                               !.force = loop.force])
    /\ UNCHANGED <<gate, calc, config, docs, i18n, mutations, deletes, probe, deleted, delivery, enq, loop>>

\* the awaited call settles: its result is stored under the language, or its
\* rejection leaves the loop and processAllLanguages with it
LoopCollect ==
    /\ loop.pc = "running"
    /\ loop.idx <= Len(loop.languages)
    /\ Ended(LoopTask)
    /\ IF task[LoopTask].pc = "raised"
       THEN loop' = [loop EXCEPT !.pc = "rejected"]
       ELSE loop' = [loop EXCEPT
                        !.results = ObjSet(@, loop.languages[loop.idx], task[LoopTask].result),
                        !.idx = @ + 1,
                        !.pc = IF loop.idx = Len(loop.languages) THEN "returned" ELSE "running"]
    /\ UNCHANGED <<gate, calc, config, docs, i18n, task, mutations, deletes, probe, deleted, delivery, enq>>

NextAll ==
    \/ \E d \in Docs : CallProcessAll(d)
    \/ LoopStart
    \/ LoopCollect
    \/ \E t \in Tasks : Classify(t)
    \/ \E t \in Tasks : ReadMetadata(t)
    \/ \E t \in Tasks : Translate(t)
    \/ \E t \in Tasks : GetTimestamp(t)
    \/ \E t \in Tasks : MarkGet(t)
    \/ \E t \in Tasks : MarkWrite(t)
    \/ \E t \in Tasks : WriteTranslation(t)
    \/ \E t \in Tasks : CatchTimestamp(t)

SpecAll == InitAll /\ [][NextAll]_vars

\* --------------------------------------------- currency queries in isolation
\* every shape a stored i18n document can have: missing, without _melaka,
\* and with metadata of each status and hash
ProbeHashes == {hashContent(separateContent(c, NoFields).translatable) : c \in {DocHello, DocHola}}
                  \cup {EmptyString}
ProbeStatuses == {"pending", "completed", "failed"}
ProbeRecords ==
    {NoRecord, [exists |-> TRUE, fields |-> <<>>, melaka |-> NoMeta]}
    \cup {[exists |-> TRUE, fields |-> <<>>,
           melaka |-> [NoMeta EXCEPT !.present = TRUE, !.status = st, !.source_hash = h]] :
            st \in ProbeStatuses, h \in ProbeHashes}

Bool(b) == IF b THEN "true" ELSE "false"

InitCurrent ==
    /\ config = [provider |-> "gemini", fields |-> NoFields]
    /\ docs = [d \in Docs |-> DocHello]
    /\ i18n = [r \in I18nRefs |-> NoRecord]
    /\ task = [t \in Tasks |-> IdleTask]
    /\ mutations = 0
    /\ deletes = 0
    /\ probe \in {[NoProbe EXCEPT !.rec = rec, !.sourceHash = h] :
                     rec \in ProbeRecords, h \in ProbeHashes}
    /\ deleted = {}
    /\ gate = NoGate
    /\ calc = NoCalc
    /\ delivery = NoDelivery
    /\ enq = NoEnqueue
    /\ loop = NoLoop

\* isTranslationCurrent(docRef, locale, sourceHash)
CallIsTranslationCurrent ==
    /\ probe.isCurrent = "unset"
    /\ probe' = [probe EXCEPT !.isCurrent = Bool(isTranslationCurrent(probe.rec, probe.sourceHash))]
    /\ UNCHANGED <<gate, calc, deleted, delivery, enq, loop, config, docs, i18n, task, mutations, deletes>>

\* the currency test of processTranslation over the same record
CallSkipCheck ==
    /\ probe.skip = "unset"
    /\ probe' = [probe EXCEPT !.skip = Bool(SkipCheck(readMelakaMetadata(probe.rec), probe.sourceHash))]
    /\ UNCHANGED <<gate, calc, deleted, delivery, enq, loop, config, docs, i18n, task, mutations, deletes>>

NextCurrent == CallIsTranslationCurrent \/ CallSkipCheck

SpecCurrent == InitCurrent /\ [][NextCurrent]_vars

\* ------------------------------------------------ the gateway in isolation
MaxReplyLen == 5

\* the tokens replies are made of
ReplyLocale == "ms-MY"
Alphabet ==
    {Tok("txt"), Tok("fence"), Tok("fencejson"), Tok("{"), Tok("}"), Tok("lit"),
     Member("title", TranslateValue(Str("Hello"), ReplyLocale))}

\* every text of at most MaxReplyLen tokens
FlatReplies == UNION {[1..n -> Alphabet] : n \in 0..MaxReplyLen}

\* the text of an object
ObjectTokens(obj) ==
    <<Tok("{")>> \o [i \in 1..Len(obj) |-> Member(obj[i][1], obj[i][2])] \o <<Tok("}")>>

\* the ways a provider presents its object: bare, in a code block, in a
\* json code block between prose, between prose
Wrappings(text) ==
    {text,
     <<Tok("fence")>> \o text \o <<Tok("fence")>>,
     <<Tok("txt"), Tok("fencejson")>> \o text \o <<Tok("fence"), Tok("txt")>>,
     <<Tok("txt")>> \o text \o <<Tok("txt")>>}

DropField(obj, i) == SubSeq(obj, 1, i - 1) \o SubSeq(obj, i + 1, Len(obj))
Reverse(obj) == [i \in 1..Len(obj) |-> obj[Len(obj) + 1 - i]]
MixedArray == Arr(<<Atom("string", "a"), Atom("number", "1")>>)
OtherValues == {Num("10"), MixedArray, NullValue, StrArr(<<"a">>), Str("a")}
ExtraField == <<"notes", Str("n")>>

\* the objects a provider may answer with when asked for content: the
\* translation, and the translation with a field missing, a value replaced,
\* a field added, or the fields in another order
ReplyObjects(content, l) ==
    LET ok == TranslationOutput(content, l)
        dropped == {DropField(ok, i) : i \in 1..Len(ok)}
    IN  {ok, Reverse(ok)}
          \cup dropped
          \cup {[ok EXCEPT ![i] = <<ok[i][1], w>>] : i \in 1..Len(ok), w \in OtherValues}
          \cup {Append(x, ExtraField) : x \in {ok} \cup dropped}

StructuredReplies(content, l) ==
    UNION {Wrappings(ObjectTokens(obj)) : obj \in ReplyObjects(content, l)}

NetFailures == {[net |-> n, reply |-> <<>>] : n \in NetOutcomes \ {"text"}}
TextEnv(reply) == [net |-> "text", reply |-> reply]

GatewayContents == {separateContent(c, NoFields) : c \in {DocHello, DocWide}}

\* a facade that has been asked for with the given configuration
NewGate(provider, apiKey, sep, env) ==
    [NoGate EXCEPT !.pc = "new", !.provider = provider, !.apiKey = apiKey,
                   !.targetLanguage = ReplyLocale,
                   !.content = sep.translatable,
                   !.schema = createTranslationSchema(sep.translatable, sep.detectedTypes),
                   !.env = env]

GatewayInputs ==
    {NewGate("gemini", TRUE, sep, env) :
        sep \in GatewayContents, env \in NetFailures}
    \cup UNION {{NewGate("gemini", TRUE, sep, TextEnv(r)) :
                    r \in StructuredReplies(sep.translatable, ReplyLocale)} :
                sep \in GatewayContents}
    \cup {NewGate("gemini", TRUE, separateContent(DocHello, NoFields), TextEnv(r)) :
            r \in FlatReplies}
    \cup {NewGate(p, k, separateContent(DocHello, NoFields), env) :
            p \in GatewayProviders, k \in BOOLEAN,
            env \in NetFailures \cup
                    {TextEnv(ObjectTokens(TranslationOutput(
                        separateContent(DocHello, NoFields).translatable, ReplyLocale)))}}

InitGateway ==
    /\ config = [provider |-> "gemini", fields |-> NoFields]
    /\ docs = [d \in Docs |-> DocHello]
    /\ i18n = [r \in I18nRefs |-> NoRecord]
    /\ task = [t \in Tasks |-> IdleTask]
    /\ mutations = 0
    /\ deletes = 0
    /\ probe = NoProbe
    /\ deleted = {}
    /\ delivery = NoDelivery
    /\ enq = NoEnqueue
    /\ loop = NoLoop
    /\ gate \in GatewayInputs
    /\ calc = NoCalc

\* createTranslationFacade(aiConfig): the constructor calls createProvider
CreateTranslationFacade ==
    /\ gate.pc = "new"
    /\ LET made == createProvider(gate.provider)
       IN  IF made.threw
           THEN gate' = [gate EXCEPT !.pc = "construct_threw", !.thrown = made.error]
           ELSE gate' = [gate EXCEPT !.pc = "ready"]
    /\ UNCHANGED <<config, docs, i18n, task, mutations, deletes, probe, deleted,
                   delivery, enq, loop, calc>>

\* facade.translate(content, schema, options); parsed is the local of that
\* name, assigned when the call gets as far as a reply text
FacadeTranslate ==
    /\ gate.pc = "ready"
    /\ LET response == GeminiTranslate(gate.apiKey, gate.env, gate.schema)
           parsed == IF ReachesParse(gate.apiKey, gate.env)
                     THEN extractJsonFromResponse(gate.env.reply)
                     ELSE SyntaxError
       IN  IF response.threw
           THEN gate' = [gate EXCEPT !.pc = "translate_threw", !.thrown = response.error,
                                     !.parsed = parsed]
           ELSE gate' = [gate EXCEPT !.pc = "done", !.response = response,
                                     !.parsed = parsed]
    /\ UNCHANGED <<config, docs, i18n, task, mutations, deletes, probe, deleted,
                   delivery, enq, loop, calc>>

NextGateway == CreateTranslationFacade \/ FacadeTranslate

SpecGateway == InitGateway /\ [][NextGateway]_vars

\* ------------------------------------- a pass with the gateway spelled out
\* a reply field named like a field the pass copies
ClashingField == <<"views", Str("n")>>

\* what the endpoint may do with the request of a pass: fail, or answer with
\* one of the objects, bare or in a code block, or with prose only
PassEnvs(content, l) ==
    NetFailures
      \cup {TextEnv(ObjectTokens(obj)) : obj \in ReplyObjects(content, l)}
      \cup {TextEnv(ObjectTokens(Append(TranslationOutput(content, l), ClashingField)))}
      \cup {TextEnv(<<Tok("fence")>> \o ObjectTokens(TranslationOutput(content, l))
                      \o <<Tok("fence")>>),
            TextEnv(<<Tok("txt")>>)}

InitReply ==
    /\ config \in [provider : Providers, fields : {NoFields, FieldList(<<"title">>)}]
    /\ docs = [d \in Docs |-> DocWide]
    /\ \E first \in StoredRecords("ms-MY", config.fields) :
          i18n = [r \in I18nRefs |-> IF r = <<"d1", "ms-MY">> THEN first ELSE NoRecord]
    /\ task = [t \in Tasks |-> IdleTask]
    /\ mutations = 0
    /\ deletes = 0
    /\ probe = NoProbe
    /\ deleted = {}
    /\ gate = NoGate
    /\ calc = NoCalc
    /\ delivery = NoDelivery
    /\ enq = NoEnqueue
    /\ loop = NoLoop

\* processTranslation, steps 4-7: synthesize the schema, build the facade and
\* await facade.translate; the key is the one the task handler injects
TranslateReply(t) ==
    /\ task[t].pc = "translate"
    /\ LET made == createProvider(config.provider)
           schema == createTranslationSchema(Sep(t).translatable, Sep(t).detectedTypes)
       IN  IF made.threw
           THEN SetTask(t, Throw(task[t], made.error))
           ELSE \E env \in PassEnvs(Sep(t).translatable, task[t].l) :
                  LET response == GeminiTranslate(TRUE, env, schema)
                  IN  IF response.threw
                      THEN SetTask(t, Throw([task[t] EXCEPT !.env = env], response.error))
                      ELSE SetTask(t, [task[t] EXCEPT
                              !.pc = "timestamp", !.gw = @ + 1, !.env = env,
                              !.resp = IF response.success /\ response.hasOutput
                                       THEN "ok" ELSE "fail",
                              !.respError = response.error,
                              !.output = response.output])
    /\ UNCHANGED <<config, docs, i18n, mutations, deletes, probe, deleted, delivery,
                   enq, loop, gate, calc>>

NextReply ==
    \/ \E force \in BOOLEAN : HandleTask(HandlerTask, "d1", "ms-MY", force)
    \/ Classify(HandlerTask)
    \/ ReadMetadata(HandlerTask)
    \/ TranslateReply(HandlerTask)
    \/ GetTimestamp(HandlerTask)
    \/ MarkGet(HandlerTask)
    \/ MarkWrite(HandlerTask)
    \/ WriteTranslation(HandlerTask)
    \/ CatchTimestamp(HandlerTask)

SpecReply == InitReply /\ [][NextReply]_vars

\* ------------------------------------------ the pure helpers in isolation
MaxFields == 3

FieldNames == {"_melaka", "tags", "title", "views"}

\* the values a field may hold
NestedOne == ObjAtom(<< <<"x", "number", "1">> >>)
NestedTwo == ObjAtom(<< <<"x", "number", "2">> >>)
ValuesOf(field) ==
    CASE field = "title" -> {Str("Hello"), Str("Hola")}
      [] field = "tags" -> {StrArr(<<"a", "b">>),
                            Arr(<<Atom("string", "a"), NestedOne>>),
                            Arr(<<Atom("string", "a"), NestedTwo>>),
                            Arr(<<Atom("number", "10")>>)}
      [] field = "views" -> {Num("10"), Str("ten")}
      [] OTHER -> {Obj(<< <<"status", "string", "completed">> >>)}

\* the orders in which up to MaxFields distinct fields can be inserted
KeySeqs ==
    {ks \in UNION {[1..n -> FieldNames] : n \in 0..MaxFields} :
        \A i, j \in 1..Len(ks) : i # j => ks[i] # ks[j]}

\* every document of up to MaxFields fields
PureDocs ==
    UNION {{[i \in 1..Len(ks) |-> <<ks[i], vs[i]>>] :
               vs \in {f \in [1..Len(ks) -> UNION {ValuesOf(k) : k \in FieldNames}] :
                          \A i \in 1..Len(ks) : f[i] \in ValuesOf(ks[i])}} :
           ks \in KeySeqs}

\* the documents a document is compared with: the same fields inserted in
\* another order, and the same document with one value changed
Reorderings(doc) ==
    {[i \in 1..Len(doc) |-> doc[p[i]]] :
        p \in {q \in [1..Len(doc) -> 1..Len(doc)] :
                  \A i, j \in 1..Len(doc) : i # j => q[i] # q[j]}}
Rewrites(doc) ==
    {[doc EXCEPT ![i] = <<doc[i][1], v>>] : i \in 1..Len(doc), v \in ValuesOf("tags") \cup ValuesOf("title")}
Related(doc) ==
    Reorderings(doc) \cup {d \in Rewrites(doc) : d \in PureDocs}

PureFields == {NoFields, FieldList(<<"title">>), FieldList(<<"tags", "title">>)}

InitPure ==
    /\ config = [provider |-> "gemini", fields |-> NoFields]
    /\ docs = [d \in Docs |-> DocHello]
    /\ i18n = [r \in I18nRefs |-> NoRecord]
    /\ task = [t \in Tasks |-> IdleTask]
    /\ mutations = 0
    /\ deletes = 0
    /\ probe = NoProbe
    /\ deleted = {}
    /\ delivery = NoDelivery
    /\ enq = NoEnqueue
    /\ loop = NoLoop
    /\ gate = NoGate
    /\ \E doc \in PureDocs : \E other \in Related(doc), fields \in PureFields :
          calc = [NoCalc EXCEPT !.pc = "new", !.doc = doc, !.other = other,
                                !.fields = fields]

\* separateContent(doc, fields), for each of the two documents
CallSeparateContent ==
    /\ calc.pc = "new"
    /\ calc' = [calc EXCEPT !.pc = "separated",
                            !.sep = <<separateContent(calc.doc, calc.fields),
                                      separateContent(calc.other, calc.fields)>>]
    /\ UNCHANGED <<config, docs, i18n, task, mutations, deletes, probe, deleted,
                   delivery, enq, loop, gate>>

\* hashContent(translatable), for each of the two separations
CallHashContent ==
    /\ calc.pc = "separated"
    /\ calc' = [calc EXCEPT !.pc = "hashed",
                            !.hashes = <<hashContent(calc.sep[1].translatable),
                                         hashContent(calc.sep[2].translatable)>>]
    /\ UNCHANGED <<config, docs, i18n, task, mutations, deletes, probe, deleted,
                   delivery, enq, loop, gate>>

NextPure == CallSeparateContent \/ CallHashContent

SpecPure == InitPure /\ [][NextPure]_vars

\* ------------------------------------------ detectFieldType in isolation
RefAtom == ObjAtom(<< <<"path", "string", "users/u1">>, <<"id", "string", "u1">> >>)
TimestampAtom == ObjAtom(<< <<"_seconds", "number", "1">>, <<"_nanoseconds", "number", "0">> >>)
GeoPointAtom == ObjAtom(<< <<"latitude", "number", "1">>, <<"longitude", "number", "2">> >>)
\* objects that only look like a reference: path is not a string, id is missing
PathNumberAtom == ObjAtom(<< <<"path", "number", "1">>, <<"id", "string", "u1">> >>)
PathOnlyAtom == ObjAtom(<< <<"path", "string", "users/u1">> >>)

ItemAtoms ==
    {Atom("string", "a"), Atom("number", "10"), Atom("boolean", "true"), NullAtom,
     RefAtom, TimestampAtom, NestedOne}

\* every value handed to detectFieldType: null, the scalars, and the arrays
\* of up to two items
ClassifyValues ==
    {NullValue}
      \cup {[t |-> "scalar", v |-> <<a>>] :
               a \in (ItemAtoms \ {NullAtom}) \cup {GeoPointAtom, PathNumberAtom, PathOnlyAtom}}
      \cup {Arr(<<>>)}
      \cup {Arr(<<a>>) : a \in ItemAtoms}
      \cup {Arr(<<a, b>>) : a \in ItemAtoms, b \in ItemAtoms}

InitClassify ==
    /\ config = [provider |-> "gemini", fields |-> NoFields]
    /\ docs = [d \in Docs |-> DocHello]
    /\ i18n = [r \in I18nRefs |-> NoRecord]
    /\ task = [t \in Tasks |-> IdleTask]
    /\ mutations = 0
    /\ deletes = 0
    /\ probe = NoProbe
    /\ deleted = {}
    /\ delivery = NoDelivery
    /\ enq = NoEnqueue
    /\ loop = NoLoop
    /\ gate = NoGate
    /\ \E value \in ClassifyValues, second \in ClassifyValues :
          calc = [NoCalc EXCEPT !.pc = "values", !.value = value, !.second = second]

\* detectFieldType(value), for each of the two values
CallDetectFieldType ==
    /\ calc.pc = "values"
    /\ calc' = [calc EXCEPT !.pc = "classified",
                            !.types = <<detectFieldType(calc.value),
                                        detectFieldType(calc.second)>>]
    /\ UNCHANGED <<config, docs, i18n, task, mutations, deletes, probe, deleted,
                   delivery, enq, loop, gate>>

\* isTranslatableType(schemaType), for each of the two tags
CallIsTranslatableType ==
    /\ calc.pc = "classified"
    /\ calc' = [calc EXCEPT !.pc = "decided",
                            !.decided = <<isTranslatableType(calc.types[1]),
                                          isTranslatableType(calc.types[2])>>]
    /\ UNCHANGED <<config, docs, i18n, task, mutations, deletes, probe, deleted,
                   delivery, enq, loop, gate>>

NextClassify == CallDetectFieldType \/ CallIsTranslatableType

SpecClassify == InitClassify /\ [][NextClassify]_vars

\* --------------------------- deliveries under a layered force-update flag
\* the payload enqueued for document d1 of the configured collection
ConfiguredPayload ==
    [collectionPath |-> "articles", documentId |-> "d1", targetLanguage |-> "ms-MY",
     batchId |-> "batch_1", config |-> [path |-> "articles"]]

InitForce ==
    /\ config \in [provider : Providers, fields : FieldsOptions]
    /\ docs = [d \in Docs |-> DocHello]
    /\ \E first \in StoredRecords("ms-MY", config.fields) :
          i18n = [r \in I18nRefs |-> IF r = <<"d1", "ms-MY">> THEN first ELSE NoRecord]
    /\ task = [t \in Tasks |-> IdleTask]
    /\ mutations = 0
    /\ deletes = 0
    /\ probe = NoProbe
    /\ deleted = {}
    /\ gate = NoGate
    /\ calc = NoCalc
    /\ delivery \in {[NoDelivery EXCEPT !.phase = "queued", !.payload = ConfiguredPayload,
                                         !.forceUpdate = f,
                                         !.defaultsForceUpdate = g] :
                        f \in OptionalFlags, g \in OptionalFlags}
    /\ enq = NoEnqueue
    /\ loop = NoLoop

NextForce ==
    \/ Dispatch
    \/ HandlerGet
    \/ HandlerReturn
    \/ Settle
    \/ \E t \in Tasks : Classify(t)
    \/ \E t \in Tasks : ReadMetadata(t)
    \/ \E t \in Tasks : Translate(t)
    \/ \E t \in Tasks : GetTimestamp(t)
    \/ \E t \in Tasks : MarkGet(t)
    \/ \E t \in Tasks : MarkWrite(t)
    \/ \E t \in Tasks : WriteTranslation(t)
    \/ \E t \in Tasks : CatchTimestamp(t)

SpecForce == InitForce /\ [][NextForce]_vars

\* ------------------------------------------------ glossaries of a pass
MaxTerms == 2

GlossaryTerms == {"checkout", "cart", "invoice"}
GlossaryWords == {"bayar", "troli"}

\* the orders in which up to MaxTerms distinct terms can be written
TermSeqs ==
    {ks \in UNION {[1..n -> GlossaryTerms] : n \in 0..MaxTerms} :
        \A i, j \in 1..Len(ks) : i # j => ks[i] # ks[j]}

\* config.glossary and collectionConfig.glossary: absent, empty, or some terms
Glossaries ==
    {NoGlossary} \cup
    UNION {{Glossary([i \in 1..Len(ks) |-> <<ks[i], ws[i]>>]) :
               ws \in [1..Len(ks) -> GlossaryWords]} : ks \in TermSeqs}

InitGlossary ==
    /\ config = [provider |-> "gemini", fields |-> NoFields]
    /\ docs = [d \in Docs |-> DocHello]
    /\ i18n = [r \in I18nRefs |-> NoRecord]
    /\ task = [t \in Tasks |-> IdleTask]
    /\ mutations = 0
    /\ deletes = 0
    /\ probe = NoProbe
    /\ deleted = {}
    /\ delivery = NoDelivery
    /\ enq = NoEnqueue
    /\ loop = NoLoop
    /\ gate = NoGate
    /\ \E shared \in Glossaries, collection \in Glossaries :
          calc = [NoCalc EXCEPT !.pc = "glossaries", !.doc = shared, !.other = collection]

\* processTranslation, step 6: mergeGlossaries(config.glossary, collectionConfig.glossary)
CallMergeGlossaries ==
    /\ calc.pc = "glossaries"
    /\ calc' = [calc EXCEPT !.pc = "merged", !.sep = mergeGlossaries(calc.doc, calc.other)]
    /\ UNCHANGED <<gate, config, docs, i18n, task, mutations, deletes, probe, deleted,
                   delivery, enq, loop>>

\* processTranslation, step 7: facade.translate(translatable, schema, {glossary, ...})
PassGlossary ==
    /\ calc.pc = "merged"
    /\ calc' = [calc EXCEPT !.pc = "passed"]
    /\ gate' = [gate EXCEPT !.pc = "called", !.glossary = calc.sep]
    /\ UNCHANGED <<config, docs, i18n, task, mutations, deletes, probe, deleted,
                   delivery, enq, loop>>

NextGlossary == CallMergeGlossaries \/ PassGlossary

SpecGlossary == InitGlossary /\ [][NextGlossary]_vars

\* ------------------------------------- deliveries under a fair transport
\* a step of the handler or of the transport, as opposed to one of the
\* application
HandlerProgress ==
    \/ Dispatch
    \/ HandlerGet
    \/ HandlerReturn
    \/ Settle
    \/ \E t \in Tasks : Classify(t)
    \/ \E t \in Tasks : ReadMetadata(t)
    \/ \E t \in Tasks : Translate(t)
    \/ \E t \in Tasks : GetTimestamp(t)
    \/ \E t \in Tasks : MarkGet(t)
    \/ \E t \in Tasks : MarkWrite(t)
    \/ \E t \in Tasks : WriteTranslation(t)
    \/ \E t \in Tasks : CatchTimestamp(t)

\* every call the handler awaits returns or throws, and the transport
\* dispatches what it holds
SpecRetry == InitHandler /\ [][NextHandler]_vars /\ WF_vars(HandlerProgress)

\* ------------------------------------------ deletes on a store in use
\* what a locale of a document can hold before a delete: nothing, a
\* completed record, a failed one
SeededRecords ==
    {NoRecord, EarlierRecord(DocHello, "ms-MY", NoFields),
     MarkFailedCreate("Gemini API error", 0)}

InitDelete ==
    /\ config = [provider |-> "gemini", fields |-> NoFields]
    /\ docs = [d \in Docs |-> DocHello]
    /\ i18n \in [I18nRefs -> SeededRecords]
    /\ task = [t \in Tasks |-> IdleTask]
    /\ mutations = 0
    /\ deletes = 0
    /\ probe = NoProbe
    /\ deleted = {}
    /\ gate = NoGate
    /\ calc = NoCalc
    /\ delivery = NoDelivery
    /\ enq = NoEnqueue
    /\ loop = NoLoop

\* deletes of the application while one task of d1 is being handled
NextDelete ==
    \/ \E d \in Docs, l \in Locales : DeleteTranslation(d, l)
    \/ \E d \in Docs : CallDeleteAll(d)
    \/ DeleteAllGet
    \/ DeleteAllCommit
    \/ \E l \in Locales : HandleTask(HandlerTask, "d1", l, TRUE)
    \/ Classify(HandlerTask)
    \/ Translate(HandlerTask)
    \/ GetTimestamp(HandlerTask)
    \/ MarkGet(HandlerTask)
    \/ MarkWrite(HandlerTask)
    \/ WriteTranslation(HandlerTask)
    \/ CatchTimestamp(HandlerTask)

SpecDelete == InitDelete /\ [][NextDelete]_vars

\* --------------------------- tasks of a collection, enqueued and handled
\* the payload as the transport delivers it: the batch identifier is a
\* non-empty string
AsDelivered(payload) ==
    [collectionPath |-> payload.collectionPath, documentId |-> payload.documentId,
     targetLanguage |-> payload.targetLanguage, batchId |-> "batch_1",
     config |-> [path |-> payload.config.path]]

InitGroup ==
    /\ config \in [provider : {"gemini"}, fields : {NoFields}]
    /\ docs = [d \in Docs |-> DocHello]
    /\ i18n = [r \in I18nRefs |-> NoRecord]
    /\ task = [t \in Tasks |-> IdleTask]
    /\ mutations = 0
    /\ deletes = 0
    /\ probe = NoProbe
    /\ deleted \in {{}, {"d2"}}
    /\ gate = NoGate
    /\ calc = NoCalc
    /\ delivery = NoDelivery
    /\ enq \in {[NoEnqueue EXCEPT !.languages = ls, !.reliable = r,
                                   !.collectionPath = c.path,
                                   !.collectionConfig = c] :
                    ls \in LanguageLists, r \in BOOLEAN,
                    c \in {FlatCollection, GroupCollection}}
    /\ loop = NoLoop

\* the transport dispatches one of the tasks the collection call enqueued
DeliverEnqueued(k) ==
    /\ enq.pc = "done"
    /\ delivery.phase = "none"
    /\ k \in 1..Len(enq.sent)
    /\ delivery' = [NoDelivery EXCEPT !.phase = "queued",
                                      !.payload = AsDelivered(enq.sent[k].payload)]
    /\ UNCHANGED <<gate, calc, config, docs, i18n, task, mutations, deletes, probe,
                   deleted, enq, loop>>

NextGroup ==
    \/ CallEnqueueCollection
    \/ EnqueueStep
    \/ \E k \in 1..(Cardinality(Docs) * 3) : DeliverEnqueued(k)
    \/ Dispatch
    \/ HandlerGet

SpecGroup == InitGroup /\ [][NextGroup]_vars

\* ------------------------------------------- the record a pass writes
\* the wide document carrying metadata of its own under the reserved name
DocStamped == Append(DocWide, <<"_melaka", Obj(<< <<"status", "string", "completed">> >>)>>)

InitRecord ==
    /\ config \in [provider : {"gemini"},
                   fields : {NoFields, FieldList(<<"title">>), FieldList(<<"views">>)}]
    /\ \E doc \in {DocHello, DocWide, DocStamped} : docs = [d \in Docs |-> doc]
    /\ \E first \in StoredRecords("ms-MY", config.fields) :
          i18n = [r \in I18nRefs |-> IF r = <<"d1", "ms-MY">> THEN first ELSE NoRecord]
    /\ task = [t \in Tasks |-> IdleTask]
    /\ mutations = 0
    /\ deletes = 0
    /\ probe = NoProbe
    /\ deleted = {}
    /\ gate = NoGate
    /\ calc = NoCalc
    /\ delivery = NoDelivery
    /\ enq = NoEnqueue
    /\ loop = NoLoop

SpecRecord == InitRecord /\ [][NextReply]_vars

\* -------------------------------- status queries on a store being written
\* passes, direct markTranslationFailed calls and deletes from an empty
\* store, while the status of d1 is queried
NextStatus ==
    \/ \E t \in Tasks, force \in BOOLEAN : \E x \in Targets(t) :
          HandleTask(t, x[2], x[3], force)
    \/ \E t \in Tasks : Classify(t)
    \/ \E t \in Tasks : ReadMetadata(t)
    \/ \E t \in Tasks : Translate(t)
    \/ \E t \in Tasks : GetTimestamp(t)
    \/ \E t \in Tasks : MarkGet(t)
    \/ \E t \in Tasks : MarkWrite(t)
    \/ \E t \in Tasks : WriteTranslation(t)
    \/ \E t \in Tasks : CatchTimestamp(t)
    \/ \E t \in Tasks : \E x \in Targets(t) : CallMarkFailed(t, x[2], x[3])
    \/ \E d \in Docs, l \in Locales : DeleteTranslation(d, l)
    \/ CallGetTranslationStatus("d1", <<"ms-MY", "zh-CN">>)
    \/ StatusRead

SpecStatus == Init /\ [][NextStatus]_vars

\* ================================================================= claims
TaskRef(t) == <<task[t].d, task[t].l>>
IsPass(t) == task[t].mode = "pass" /\ task[t].pc # "idle"
\* the pass met no failure of the store or the clock, and the configured
\* provider is the implemented one
Clean(t) == ~task[t].fault /\ config.provider = "gemini"
HasContent(t) == Len(Sep(t).translatable) > 0
Completed(rec) == rec.exists /\ rec.melaka.present /\ rec.melaka.status = "completed"
Failed(rec) == rec.exists /\ rec.melaka.present /\ rec.melaka.status = "failed"

\* C1: whenever a record's status is completed, its source_hash equals the
\* fingerprint of the translatable content from which its stored translated
\* fields were produced, whatever passes, markFailed calls and deletes ran.
C1_CompletedHashIsFingerprint ==
    \A r \in I18nRefs :
        Completed(i18n[r]) =>
            i18n[r].melaka.source_hash = hashContent(SourceOf(i18n[r].fields, r[2]))

\* a completed record that was marked failed and deleted before
C1_Witness ==
    \E r \in I18nRefs, t \in Tasks :
        /\ Completed(i18n[r])
        /\ TaskRef(t) = r
        /\ task[t].outcome \in {"failed", "marked"}
        /\ task[t].writes > 0
        /\ deletes > 0

\* C2: with forceUpdate false, a pass that finds the record completed from
\* the same translatable content as its own ends Skipped-current: it returns
\* {success:true, skipped:true}, calls no gateway and writes nothing.
C2_UnchangedContentSkipped ==
    \A t \in Tasks :
        ( /\ IsPass(t) /\ task[t].pc = "done"
          /\ ~task[t].force
          /\ ~task[t].fault
          /\ task[t].sawCurrent )
        => /\ task[t].result = Result(TRUE, TRUE, "")
           /\ task[t].outcome = "skipped_current"
           /\ task[t].gw = 0
           /\ task[t].writes = 0

\* the second of two sequential passes over unchanged content was skipped
C2_Witness ==
    \E t, u \in Tasks :
        /\ t # u /\ TaskRef(t) = TaskRef(u)
        /\ task[u].outcome = "completed"
        /\ task[t].docData = task[u].docData
        /\ ~task[t].force
        /\ task[t].sawCurrent
        /\ task[t].outcome = "skipped_current"

\* C3: processTranslation never raises to its caller; after a failure of any
\* step it returns a result with success:false and skipped:false.
C3_NeverRaises ==
    \A t \in Tasks :
        IsPass(t) =>
            /\ task[t].pc # "raised"
            /\ (task[t].pc = "done" /\ task[t].fault) =>
                    (~task[t].result.success /\ ~task[t].result.skipped)

GatewayError == "Gemini API error"

\* the step in which pass t stores its failed mark
MarkStep(t) ==
    /\ IsPass(t)
    /\ task[t].pc = "mf_write"
    /\ task'[t].writes = task[t].writes + 1

\* the step in which pass t stores its translation
WriteStep(t) ==
    /\ IsPass(t)
    /\ task[t].pc = "write"
    /\ task'[t].outcome = "completed"

\* the mark has the shape markTranslationFailed promises: a metadata-only
\* document when its lookup found none, otherwise the stored document with
\* nothing but status, error and translated_at changed
MarkShape(t) ==
    LET old == i18n[TaskRef(t)]
        new == i18n'[TaskRef(t)]
    IN  /\ Failed(new)
        /\ new.melaka.hasError
        /\ new.melaka.error = MarkError(task[t])
        /\ new.melaka.translated_at = task[t].ts
        /\ IF task[t].existing
           THEN /\ new.fields = old.fields
                /\ new.melaka.source_hash = old.melaka.source_hash
                /\ new.melaka.model = old.melaka.model
                /\ new.melaka.reviewed = old.melaka.reviewed
           ELSE /\ new.fields = <<>>
                /\ new.melaka.source_hash = EmptyString
                /\ new.melaka.model = ""
                /\ new.melaka.reviewed = FALSE

C5_FailedIsNotTerminal ==
    /\ [](\A t \in Tasks :
            ( /\ IsPass(t) /\ task[t].pc = "done"
              /\ task[t].sawStatus = "failed"
              /\ HasContent(t) /\ Clean(t) )
            => /\ task[t].gw = 1
               /\ task[t].outcome # "skipped_current"
               /\ task[t].resp = "ok" =>
                     (task[t].outcome = "completed" /\ task[t].writes = 1)
               /\ (task[t].resp = "fail" /\ ~task[t].disturbed) =>
                     (task[t].outcome = "failed" /\ task[t].writes = 1))
    /\ [][\A t \in Tasks :
            /\ (WriteStep(t) /\ task[t].sawStatus = "failed") =>
                  /\ Completed(i18n'[TaskRef(t)])
                  /\ i18n'[TaskRef(t)].melaka.source_hash = hashContent(Sep(t).translatable)
                  /\ ~i18n'[TaskRef(t)].melaka.hasError
            /\ (MarkStep(t) /\ task[t].sawStatus = "failed") =>
                  Failed(i18n'[TaskRef(t)])]_vars

\* an unforced pass found the record failed, still carrying the hash of the
\* pass's own content, and completed it
C5_Witness ==
    \E t, u \in Tasks :
        /\ t # u /\ TaskRef(t) = TaskRef(u)
        /\ task[u].outcome = "failed" /\ task[u].resp = "fail"
        /\ IsPass(t) /\ ~task[t].force
        /\ task[t].docData = task[u].docData
        /\ task[t].sawStatus = "failed"
        /\ task[t].sawSameHash
        /\ task[t].outcome = "completed"
        /\ Completed(i18n[TaskRef(t)])
        /\ ~i18n[TaskRef(t)].melaka.hasError

\* the passes delivered for record r
PassesOf(r) == {t \in Tasks : IsPass(t) /\ TaskRef(t) = r}

\* the passes for r were triggered by the successive writes of the document
\* (one of them read its current content), all of them finished successfully
\* over non-empty translatable content, and nothing else touched the record
AllPassesSucceeded(r) ==
    /\ PassesOf(r) # {}
    /\ \A t \in PassesOf(r) :
          /\ task[t].pc = "done"
          /\ task[t].result.success
          /\ HasContent(t)
    /\ \E t \in PassesOf(r) : task[t].docData = docs[r[1]]
    /\ \A t \in Tasks : (task[t].mode = "mark" /\ task[t].pc # "idle") => TaskRef(t) # r
    /\ deletes = 0

\* C6 (as stated): when the passes triggered by successive mutations of one
\* document all finish successfully, the record is completed with the
\* fingerprint of the document's current translatable content.
C6_FinalRecordIsCurrent ==
    \A r \in I18nRefs :
        AllPassesSucceeded(r) =>
            /\ Completed(i18n[r])
            /\ i18n[r].melaka.source_hash =
                  hashContent(separateContent(docs[r[1]], config.fields).translatable)

\* C6 (amended): when the passes triggered by successive mutations of one
\* document all finish successfully, the record is completed with the
\* fingerprint of the translatable content that one of those passes read,
\* which need not be the current one.
C6_FinalRecordFromSomePass ==
    \A r \in I18nRefs :
        AllPassesSucceeded(r) =>
            /\ Completed(i18n[r])
            /\ \E t \in PassesOf(r) :
                  i18n[r].melaka.source_hash = hashContent(Sep(t).translatable)

\* two overlapping passes read different versions and both wrote; the older
\* version is the one left in the record
C6_Witness ==
    \E r \in I18nRefs :
        /\ AllPassesSucceeded(r)
        /\ \A t \in Tasks : t \in PassesOf(r) /\ task[t].outcome = "completed"
        /\ \E t, u \in Tasks : task[t].docData # task[u].docData
        /\ i18n[r].melaka.source_hash #
              hashContent(separateContent(docs[r[1]], config.fields).translatable)

\* C7: a pass for (d, l) changes no record but (d, l), however it ends, and
\* a pass whose record no other task touches ends as it would alone,
\* whatever happens to the passes for other pairs.
C7_OnlyOwnRecord ==
    /\ [][\A t \in Tasks :
            task'[t] # task[t] =>
                \A r \in I18nRefs :
                    r # <<task'[t].d, task'[t].l>> => i18n'[r] = i18n[r]]_vars
    /\ [](\A t \in Tasks :
            ( /\ IsPass(t) /\ task[t].pc = "done"
              /\ HasContent(t) /\ Clean(t)
              /\ \A u \in Tasks \ {t} : task[u].pc = "idle" \/ TaskRef(u) # TaskRef(t)
              /\ deletes = 0 )
            => /\ task[t].resp = "ok" =>
                     /\ task[t].outcome = "completed"
                     /\ Completed(i18n[TaskRef(t)])
                     /\ i18n[TaskRef(t)].melaka.source_hash = hashContent(Sep(t).translatable)
               /\ task[t].resp = "fail" =>
                     /\ task[t].outcome = "failed"
                     /\ Failed(i18n[TaskRef(t)]))

\* a pass completed its record while the pass for another pair failed, and
\* the failed pass left a record of its own
C7_Witness ==
    \E t, u \in Tasks :
        /\ TaskRef(t) # TaskRef(u)
        /\ IsPass(t) /\ IsPass(u)
        /\ task[t].outcome = "completed"
        /\ Completed(i18n[TaskRef(t)])
        /\ task[u].outcome = "failed"
        /\ Failed(i18n[TaskRef(u)])

\* doc has no string or string-array field, or none inside the field list
NoTranslatableField(doc, fields) ==
    \A i \in 1..Len(doc) :
        \/ doc[i][1] = "_melaka"
        \/ fields.given /\ ~Includes(fields.list, doc[i][1])
        \/ detectFieldType(doc[i][2]) \notin {"string", "string[]"}

\* C8: a pass over a document with empty translatable content returns
\* {success:true, skipped:true} with no gateway call, no store read and no
\* store write, whatever the stored record and forceUpdate.
C8_EmptyContentSkipped ==
    \A t \in Tasks :
        ( /\ IsPass(t) /\ task[t].pc \notin {"loaded"}
          /\ NoTranslatableField(task[t].docData, config.fields) ) =>
            /\ task[t].pc = "done"
            /\ task[t].result = Result(TRUE, TRUE, "")
            /\ task[t].outcome = "skipped_empty"
            /\ task[t].gw = 0
            /\ task[t].reads = 0
            /\ task[t].writes = 0

\* a forced pass over a document without translatable fields was skipped
\* although a record is stored
C8_Witness ==
    \E t \in Tasks :
        /\ IsPass(t) /\ task[t].force
        /\ NoTranslatableField(task[t].docData, config.fields)
        /\ task[t].outcome = "skipped_empty"
        /\ i18n[TaskRef(t)].exists

\* C9: with forceUpdate true and non-empty translatable content the gateway
\* is called without any currency check, also when the stored record is
\* completed with the current fingerprint, and on gateway success the record
\* is rewritten.
C9_ForceUpdateTranslates ==
    /\ [](\A t \in Tasks :
            ( /\ IsPass(t) /\ task[t].pc = "done"
              /\ task[t].force /\ HasContent(t) /\ Clean(t) )
            => /\ task[t].gw = 1
               /\ task[t].outcome \notin {"skipped_current", "skipped_empty"}
               /\ task[t].resp = "ok" =>
                     (task[t].outcome = "completed" /\ task[t].writes = 1))
    /\ [][\A t \in Tasks :
            (WriteStep(t) /\ task[t].force) =>
                i18n'[TaskRef(t)] =
                    writeTranslation(TranslationOutput(Sep(t).translatable, task[t].l),
                                     Sep(t).nonTranslatable,
                                     CompletedMetadata(hashContent(Sep(t).translatable),
                                                       task[t].ts, GeminiModel))]_vars

\* a forced pass found the record completed from its own content and
\* rewrote it
C9_Witness ==
    \E t \in Tasks :
        /\ IsPass(t) /\ task[t].force
        /\ task[t].sawCurrent
        /\ task[t].outcome = "completed"
        /\ task[t].gw = 1
        /\ task[t].writes = 1

\* the predicate of the currency query
CurrentPredicate(rec, expectedHash) ==
    /\ rec.exists
    /\ rec.melaka.present
    /\ rec.melaka.status = "completed"
    /\ rec.melaka.source_hash = expectedHash

\* C10: isTranslationCurrent answers true exactly when a record with metadata
\* exists, its status is completed and its source_hash is the expected hash,
\* and the skip test of the pipeline gives the same answer.
C10_IsCurrentIff ==
    /\ probe.isCurrent # "unset" =>
          probe.isCurrent = Bool(CurrentPredicate(probe.rec, probe.sourceHash))
    /\ probe.skip # "unset" =>
          probe.skip = Bool(CurrentPredicate(probe.rec, probe.sourceHash))
    /\ (probe.isCurrent # "unset" /\ probe.skip # "unset") =>
          probe.isCurrent = probe.skip

\* both queries answered true for a completed record with the expected hash
C10_Witness ==
    /\ probe.isCurrent = "true"
    /\ probe.skip = "true"
    /\ probe.rec.melaka.status = "completed"
    /\ probe.rec.melaka.source_hash = probe.sourceHash

\* the record a completed pass t is to leave: one field per field of its
\* document, translated when translatable and copied otherwise, and the
\* metadata of the pass with no error key
ExactlyThePass(t, rec) ==
    LET doc == task[t].docData
    IN  /\ rec.exists
        /\ KeySet(rec.fields) = KeySet(doc) \ {"_melaka"}
        /\ \A k \in KeySet(rec.fields) :
              Get(rec.fields, k) =
                 IF k \in KeySet(Sep(t).translatable)
                 THEN TranslateValue(Get(doc, k), task[t].l)
                 ELSE Get(doc, k)
        /\ rec.melaka = [present |-> TRUE, status |-> "completed",
                         source_hash |-> hashContent(Sep(t).translatable),
                         translated_at |-> task[t].ts, model |-> GeminiModel,
                         reviewed |-> FALSE, hasError |-> FALSE, error |-> ""]

\* C11: the write of a pass that ends Completed is a full replace: the record
\* then holds exactly the translated fields, the passthrough fields and the
\* metadata of that pass, and nothing of the record stored before.
C11_WriteIsFullReplace ==
    [][\A t \in Tasks : WriteStep(t) => ExactlyThePass(t, i18n'[TaskRef(t)])]_vars

\* a pass completed over a record that was failed and held a field its own
\* document does not have; neither the field nor the error is left
C11_Witness ==
    \E t \in Tasks :
        /\ IsPass(t) /\ task[t].outcome = "completed"
        /\ task[t].sawStatus = "failed"
        /\ task[t].sawExtra
        /\ KeySet(i18n[TaskRef(t)].fields) = KeySet(task[t].docData)
        /\ ~i18n[TaskRef(t)].melaka.hasError

\* the step in which task t, a pass or a direct caller, stores a failed mark
AnyMarkStep(t) ==
    /\ task[t].pc = "mf_write"
    /\ i18n'[TaskRef(t)] # i18n[TaskRef(t)]

\* C12: marking a record failed keeps everything the record holds at that
\* moment: every field, the source_hash, the model and the reviewed flag are
\* still there afterwards, also when another pass wrote the record between
\* the existence check of markTranslationFailed and its write.
C12_MarkKeepsContent ==
    [][\A t \in Tasks :
          (AnyMarkStep(t) /\ i18n[TaskRef(t)].exists) =>
              LET old == i18n[TaskRef(t)]
                  new == i18n'[TaskRef(t)]
              IN  /\ new.fields = old.fields
                  /\ new.melaka.source_hash = old.melaka.source_hash
                  /\ new.melaka.model = old.melaka.model
                  /\ new.melaka.reviewed = old.melaka.reviewed]_vars

\* the handler reads the document of a well-formed payload and finds none
FindsNoDocument ==
    /\ delivery.phase = "get"
    /\ delivery.payload.documentId \in deleted
    /\ delivery'.docReads = delivery.docReads + 1

\* the callback of the transport ends for the current attempt
SettleStep ==
    /\ delivery.phase \in {"returned", "rejected"}
    /\ delivery'.phase \notin {"returned", "rejected"}

\* C13: a valid payload whose document no longer exists gives the skip result
\* {success:true, skipped:true} with no pipeline pass, no gateway call and no
\* store write, and the transport callback does not raise: no retry.
C13_MissingDocumentSkipped ==
    /\ [][FindsNoDocument =>
            /\ delivery'.phase = "returned"
            /\ delivery'.result.returned
            /\ delivery'.result.success /\ delivery'.result.skipped
            /\ delivery'.calls = 0
            /\ task' = task /\ task[HandlerTask] = IdleTask
            /\ i18n' = i18n]_vars
    /\ [][(SettleStep /\ delivery.result = Result(TRUE, TRUE, "Document no longer exists")) =>
            /\ delivery'.phase = "acked"
            /\ delivery'.signal = "ok"
            /\ delivery'.attempt = delivery.attempt
            /\ task' = task /\ i18n' = i18n]_vars

\* the document was deleted after an attempt had failed, and the retry was
\* acknowledged as a skip
C13_Witness ==
    /\ delivery.phase = "acked"
    /\ delivery.attempt > 0
    /\ delivery.payload.documentId \in deleted
    /\ delivery.result = Result(TRUE, TRUE, "Document no longer exists")
    /\ delivery.calls = 0
    /\ task[HandlerTask] = IdleTask

\* C14: a task whose collectionPath matches no collection configuration is a
\* fatal failure: the handler reports a hard failure and the transport does
\* not retry the task.
C14_NotConfiguredIsFatal ==
    /\ [](delivery.result.error = "Collection not configured" =>
              (~delivery.result.success /\ ~delivery.result.skipped))
    /\ [][(SettleStep /\ delivery.result.error = "Collection not configured") =>
              delivery'.phase # "queued"]_vars

\* C15: for each delivered task the handler invokes the pipeline at most
\* once, for the payload's document and locale only, and the callback raises
\* to the transport exactly when the result is failure-and-not-skipped;
\* completed and skipped results are never re-signalled.
C15_SignalsIffFailure ==
    /\ [](/\ delivery.calls <= 1
          /\ \A t \in Tasks \ {HandlerTask} : task[t] = IdleTask
          /\ task[HandlerTask].pc # "idle" =>
                /\ delivery.calls = 1
                /\ task[HandlerTask].d = delivery.payload.documentId
                /\ task[HandlerTask].l = delivery.payload.targetLanguage)
    /\ [][(SettleStep /\ delivery.phase = "returned") =>
              /\ delivery'.signal = "thrown" <=>
                    (~delivery.result.success /\ ~delivery.result.skipped)
              /\ delivery'.signal = "ok" <=>
                    (delivery.result.success \/ delivery.result.skipped)
              /\ delivery'.signal = "ok" => delivery'.phase = "acked"]_vars

\* an attempt that ended in a failure result was signalled and retried, and
\* the retry completed and was acknowledged
C15_Witness ==
    /\ delivery.phase = "acked"
    /\ delivery.attempt > 0
    /\ delivery.calls = 1
    /\ ~delivery.fault
    /\ delivery.result = Result(TRUE, FALSE, "")
    /\ task[HandlerTask].outcome = "completed"

\* the payload lacks a property of the task payload shape, or holds an empty
\* one, or its collection config is invalid
InvalidShape(p) ==
    \/ p.collectionPath \in {"", Undefined}
    \/ p.documentId \in {"", Undefined}
    \/ p.targetLanguage \in {"", Undefined}
    \/ p.batchId \in {"", Undefined}
    \/ p.config.path \in {"", Undefined}

\* C16: a payload that does not match the task payload shape gives the hard
\* failure {success:false, skipped:false} before any document read, store
\* write or gateway call, and never a skip.
C16_InvalidPayloadIsHardFailure ==
    /\ [](InvalidShape(delivery.payload) =>
              /\ delivery.phase \in {"none", "queued", "returned", "dead"}
              /\ delivery.docReads = 0
              /\ delivery.calls = 0
              /\ task[HandlerTask] = IdleTask
              /\ \A r \in I18nRefs : i18n[r] = NoRecord
              /\ ~delivery.result.skipped
              /\ delivery.phase = "returned" =>
                    /\ delivery.result.returned
                    /\ ~delivery.result.success)
    /\ [][(delivery.phase = "queued" /\ InvalidShape(delivery.payload)
             /\ delivery' # delivery) =>
              /\ delivery'.phase = "returned"
              /\ delivery'.result.returned
              /\ ~delivery'.result.success /\ ~delivery'.result.skipped]_vars

\* a payload with an empty documentId was answered with a hard failure
C16_Witness ==
    /\ delivery.payload.documentId = ""
    /\ delivery.payload.collectionPath = "articles"
    /\ delivery.payload.targetLanguage = "ms-MY"
    /\ delivery.payload.batchId = "batch_1"
    /\ delivery.payload.config.path = "articles"
    /\ delivery.phase = "returned"
    /\ delivery.result = Result(FALSE, FALSE, "Invalid task payload")
    /\ delivery.docReads = 0

\* C17: enqueueForDocument over n locales, with a transport that accepts
\* every task, generates one batch identifier and hands the transport n
\* payloads, one per locale in configured order, each with that batchId and
\* the given collectionPath, documentId and collection config; it reports
\* tasksEnqueued = n and failed = 0.
C17_OnePayloadPerLocale ==
    (enq.pc = "done" /\ enq.fn = "document" /\ enq.reliable) =>
        LET n == Len(enq.languages)
        IN  /\ enq.generated = 1
            /\ Len(enq.sent) = n
            /\ \A k \in 1..n :
                  /\ enq.sent[k].payload.targetLanguage = enq.languages[k]
                  /\ enq.sent[k].payload.batchId = enq.batchId
                  /\ enq.sent[k].payload.collectionPath = "articles"
                  /\ enq.sent[k].payload.documentId = enq.pairs[1][1]
                  /\ enq.sent[k].payload.documentId \in Docs
                  /\ enq.sent[k].payload.config = enq.collectionConfig
            /\ enq.tasksEnqueued = n
            /\ enq.failed = 0
            /\ enq.errors = <<>>

\* three locales were enqueued for document d2
C17_Witness ==
    /\ enq.pc = "done" /\ enq.fn = "document" /\ enq.reliable
    /\ Len(enq.languages) = 3
    /\ Len(enq.sent) = 3
    /\ enq.sent[3].payload.documentId = "d2"
    /\ enq.sent[3].payload.targetLanguage = "ja-JP"

\* C18: enqueueForDocument schedules the task of the locale at index i with
\* a delay of exactly i times the stagger interval (in milliseconds), for
\* every stagger interval, the default included.
C18_DelayIsIndexTimesStagger ==
    (enq.fn = "document") =>
        \A k \in 1..Len(enq.sent) :
            enq.sent[k].scheduleDelaySeconds * 1000 =
                enq.sent[k].index * (IF enq.staggerDelayMs = 0 THEN 100 ELSE enq.staggerDelayMs)

\* C19: enqueueForCollection creates one task per (document, locale) pair of
\* the queried documents, all with one batchId, and the k-th pair (documents
\* outer, locales inner, failed pairs counted) is scheduled with a delay of
\* k times the stagger interval.
C19_CollectionFanOut ==
    (enq.fn = "collection") =>
        /\ enq.generated = 1
        /\ enq.pc = "done" =>
              /\ enq.tasksEnqueued + enq.failed =
                    Cardinality(Docs \ deleted) * Len(enq.languages)
              /\ Len(enq.sent) = enq.tasksEnqueued
        /\ \A k \in 1..Len(enq.sent) :
              LET s == enq.sent[k]
              IN  /\ s.payload.batchId = enq.batchId
                  /\ s.payload.documentId = enq.pairs[s.index + 1][1]
                  /\ s.payload.targetLanguage = enq.pairs[s.index + 1][2]
                  /\ s.scheduleDelaySeconds * 1000 =
                        s.index * (IF enq.staggerDelayMs = 0 THEN 100 ELSE enq.staggerDelayMs)

\* C20: processAllLanguages returns a map with exactly one entry per
\* configured locale, each the result of processTranslation for that locale;
\* a failure for one locale does not abort the loop and changes neither the
\* result nor the stored record of another locale.
C20_OneResultPerLocale ==
    /\ [](loop.pc # "rejected")
    /\ [](loop.pc = "returned" =>
            /\ Len(loop.results) = Len(loop.languages)
            /\ \A i \in 1..Len(loop.languages) :
                  /\ loop.results[i][1] = loop.languages[i]
                  /\ loop.results[i][2] = task[TaskOrder[i]].result
                  /\ task[TaskOrder[i]].l = loop.languages[i]
                  /\ task[TaskOrder[i]].pc = "done")
    /\ [][\A t \in Tasks :
            task'[t] # task[t] =>
                \A r \in I18nRefs :
                    r # <<task'[t].d, task'[t].l>> => i18n'[r] = i18n[r]]_vars

\* ------------------------------------------------------- gateway claims
\* a failure outcome: success:false with an error description, nothing thrown
IsFailure(response) ==
    /\ ~response.threw
    /\ ~response.success
    /\ response.error # ""
    /\ ~response.hasOutput

\* the endpoint sent a reply text
GotText(g) == g.apiKey /\ g.env.net = "text" /\ g.env.reply # <<>>

\* an object that has every field of the schema with an accepted value
PassesSchema(obj, schema) ==
    \A i \in 1..Len(schema) :
        /\ schema[i][1] \in KeySet(obj)
        /\ ZodAccepts(schema[i][2], Get(obj, schema[i][1]))

\* C21: the translate call of the gateway never raises: a missing credential,
\* a network error, a non-2xx response, an empty response, an unparsable
\* response and a schema-validation failure each give a failure outcome
\* (success:false with an error description), and a success outcome always
\* carries output that passed schema validation.
C21_TranslateNeverRaises ==
    /\ gate.pc # "translate_threw"
    /\ gate.pc = "done" =>
        /\ ~gate.apiKey => IsFailure(gate.response)
        /\ (gate.apiKey /\ gate.env.net \in {"throws", "status", "badbody", "empty"})
              => IsFailure(gate.response)
        /\ (GotText(gate) /\ ~extractJsonFromResponse(gate.env.reply).ok)
              => IsFailure(gate.response)
        /\ ( /\ GotText(gate)
             /\ extractJsonFromResponse(gate.env.reply).ok
             /\ \/ ~extractJsonFromResponse(gate.env.reply).isObject
                \/ ~PassesSchema(extractJsonFromResponse(gate.env.reply).obj, gate.schema) )
              => IsFailure(gate.response)
        /\ gate.response.success =>
              /\ gate.response.hasOutput
              /\ PassesSchema(gate.response.output, gate.schema)
        /\ ~gate.response.success => IsFailure(gate.response)

\* a call whose reply could not be parsed has returned a failure outcome
C21_Witness ==
    /\ gate.pc = "done"
    /\ GotText(gate)
    /\ ~extractJsonFromResponse(gate.env.reply).ok
    /\ IsFailure(gate.response)

\* C22: a gateway configured with a supported but unimplemented provider
\* (openai, claude) yields a "not implemented" failure outcome and throws
\* neither at construction nor at the translate call.
C22_UnimplementedProviderFails ==
    gate.provider \in {"openai", "claude"} =>
        /\ gate.pc \notin {"construct_threw", "translate_threw"}
        /\ gate.pc = "done" => IsFailure(gate.response)

\* the value has exactly the type of the source value it translates
SameTypeAs(value, source) ==
    IF source.t = "scalar"
    THEN value.t = "scalar" /\ value.v[1].k = "string"
    ELSE value.t = "array" /\ \A i \in 1..Len(value.v) : value.v[i].k = "string"

\* the parsed reply has the translatable keys, no other key, and a value of
\* the right type under each
ConformsExactly(parsed, content) ==
    /\ parsed.isObject
    /\ KeySet(parsed.obj) = KeySet(content)
    /\ \A k \in KeySet(content) : SameTypeAs(Get(parsed.obj, k), Get(content, k))

\* C24: the validator synthesized for a pass rejects every provider output
\* that does not conform exactly to the translatable field set: an extra
\* field, a missing translatable key and a mistyped value are each rejected,
\* never accepted, trimmed or coerced.
C24_ValidatorRejectsNonConforming ==
    (gate.pc = "done" /\ GotText(gate) /\ gate.parsed.ok) =>
        /\ ~ConformsExactly(gate.parsed, gate.content) => ~gate.response.success
        /\ gate.response.success => ObjEq(gate.response.output, gate.parsed.obj)

ParseFailure == "Failed to extract valid JSON from AI response"
ValidationFailure == "Schema validation failed"

\* the reply is prose around one code block that holds a valid object
WrappedInBlock(r) ==
    \E i, j \in 1..Len(r) :
        /\ i < j
        /\ r[i].c \in {"fence", "fencejson"}
        /\ r[j].c = "fence"
        /\ \A n \in 1..Len(r) : (n < i \/ n > j) => r[n].c = "txt"
        /\ JsonParse(SubSeq(r, i + 1, j - 1)).ok
        /\ JsonParse(SubSeq(r, i + 1, j - 1)).isObject

\* C25: response parsing tries, in this order, a strict parse of the whole
\* reply, the content of a fenced block, and the substring from the first
\* '{' to the last '}', and returns the first that parses; a reply wrapping
\* valid structured content in a fenced block is parsed successfully; when all
\* three fail a parse failure is reported, whose cause differs from that of a
\* schema-validation failure.
C25_ParsingFallbackChain ==
    (gate.pc = "done" /\ GotText(gate)) =>
        LET r == gate.env.reply
            strict == JsonParse(r)
            block == CodeBlockMatch(r)
            blockParses == block.found /\ JsonParse(block.text).ok
            span == JsonMatch(r)
            spanParses == span.found /\ JsonParse(span.text).ok
        IN  /\ strict.ok => gate.parsed = strict
            /\ (~strict.ok /\ blockParses) => gate.parsed = JsonParse(block.text)
            /\ (~strict.ok /\ ~blockParses /\ spanParses) =>
                    gate.parsed = JsonParse(span.text)
            /\ (~strict.ok /\ ~blockParses /\ ~spanParses) =>
                    /\ ~gate.parsed.ok
                    /\ IsFailure(gate.response)
                    /\ gate.response.error = ParseFailure
            /\ WrappedInBlock(r) =>
                    /\ gate.parsed.ok
                    /\ gate.parsed.isObject
                    /\ gate.response.error # ParseFailure
            /\ (gate.parsed.ok /\ ~gate.response.success) =>
                    /\ gate.response.error = ValidationFailure
                    /\ gate.response.error # ParseFailure

\* a reply of prose around one code block was parsed from the block, and
\* the object in it was accepted
C25_Witness ==
    /\ gate.pc = "done"
    /\ GotText(gate)
    /\ ~JsonParse(gate.env.reply).ok
    /\ WrappedInBlock(gate.env.reply)
    /\ gate.env.reply[1].c = "txt"
    /\ gate.parsed.isObject
    /\ gate.response.success

\* the parsed reply lacks a translatable key or holds a value of another type
\* under one: it fails validation against the schema of content
Mismatched(parsed, content) ==
    \/ ~parsed.isObject
    \/ \E k \in KeySet(content) :
          \/ k \notin KeySet(parsed.obj)
          \/ ~SameTypeAs(Get(parsed.obj, k), Get(content, k))

\* the gateway call of pass t got a reply that parses and fails validation
GotMismatch(t) ==
    /\ IsPass(t)
    /\ task[t].env.net = "text"
    /\ task[t].env.reply # <<>>
    /\ extractJsonFromResponse(task[t].env.reply).ok
    /\ Mismatched(extractJsonFromResponse(task[t].env.reply), Sep(t).translatable)

\* C23: when the provider's reply fails validation against the synthesized
\* schema, the pass returns success:false, records the (document, locale)
\* record as failed, and writes none of the fields of the mismatched output
\* to the record.
C23_MismatchIsFailedNotPartial ==
    /\ [](\A t \in Tasks :
            GotMismatch(t) =>
                /\ task[t].pc # "write"
                /\ task[t].outcome # "completed"
                /\ task[t].pc = "done" =>
                      /\ task[t].result.returned
                      /\ ~task[t].result.success
                      /\ ~task[t].result.skipped
                /\ (task[t].pc = "done" /\ Clean(t)) =>
                      /\ task[t].result = Result(FALSE, FALSE, ValidationFailure)
                      /\ task[t].writes = 1
                      /\ Failed(i18n[TaskRef(t)])
                      /\ i18n[TaskRef(t)].melaka.error = ValidationFailure)
    /\ [][\A t \in Tasks :
            (GotMismatch(t) /\ task[t].pc \in {"mf_write", "write"}) =>
                /\ i18n'[TaskRef(t)].fields \in {i18n[TaskRef(t)].fields, <<>>}
                /\ MarkStep(t) => MarkShape(t)]_vars

\* a pass whose reply held one acceptable field and lacked the other has
\* marked the completed record it found as failed, its fields untouched
C23_Witness ==
    \E t \in Tasks :
        /\ GotMismatch(t)
        /\ task[t].pc = "done"
        /\ Clean(t)
        /\ \E k \in KeySet(Sep(t).translatable) :
              LET parsed == extractJsonFromResponse(task[t].env.reply)
              IN  /\ parsed.isObject
                  /\ k \in KeySet(parsed.obj)
                  /\ SameTypeAs(Get(parsed.obj, k), Get(Sep(t).translatable, k))
        /\ task[t].sawStatus = "completed"
        /\ Failed(i18n[TaskRef(t)])
        /\ i18n[TaskRef(t)].fields # <<>>

\* ----------------------------------------------------- pure helper claims
\* the documents and separations at hand, once separateContent was applied
Separated == calc.pc \in {"separated", "hashed"}
DocAt(n) == IF n = 1 THEN calc.doc ELSE calc.other
NoRepeat(obj) == Len(obj) = Cardinality(KeySet(obj))

\* C26: for every document and optional field list, separate places every
\* field other than the reserved metadata field in exactly one of translatable
\* and passthrough, with its original value, and the metadata field in
\* neither; no field is dropped, duplicated or invented.
C26_SeparatePartitions ==
    Separated =>
        \A n \in {1, 2} :
            LET D == DocAt(n)
                T == calc.sep[n].translatable
                P == calc.sep[n].nonTranslatable
            IN  /\ KeySet(T) \cap KeySet(P) = {}
                /\ KeySet(T) \cup KeySet(P) = KeySet(D) \ {"_melaka"}
                /\ NoRepeat(T) /\ NoRepeat(P)
                /\ \A k \in KeySet(T) : Get(T, k) = Get(D, k)
                /\ \A k \in KeySet(P) : Get(P, k) = Get(D, k)

\* a document with the metadata field was split under a field list into a
\* non-empty translatable and a non-empty passthrough part
C26_Witness ==
    /\ Separated
    /\ "_melaka" \in KeySet(calc.doc)
    /\ calc.fields.given
    /\ Len(calc.sep[1].translatable) > 0
    /\ Len(calc.sep[1].nonTranslatable) > 0

\* the type tags under which a field is sent for translation
TranslatableTags == {"string", "string[]"}
Listed(k) == calc.fields.given => \E i \in 1..Len(calc.fields.list) : calc.fields.list[i] = k
ScenarioA == << <<"title", Str("Hello")>>, <<"views", Num("10")>>, <<"tags", StrArr(<<"a", "b">>)>> >>

\* C27: separate puts a field in translatable if and only if its classified
\* type is string or string-array and, when a field list is given, the field
\* is in the list; every field outside a given list is in passthrough
\* whatever its type; {title:"Hello", views:10, tags:["a","b"]} with no list
\* gives translatable {title, tags} and passthrough {views}.
C27_TranslatableIffStringAndListed ==
    Separated =>
        \A n \in {1, 2} :
            LET D == DocAt(n)
                T == calc.sep[n].translatable
                P == calc.sep[n].nonTranslatable
            IN  /\ \A k \in KeySet(D) \ {"_melaka"} :
                      /\ k \in KeySet(T) <=>
                            (detectFieldType(Get(D, k)) \in TranslatableTags /\ Listed(k))
                      /\ ~Listed(k) => k \in KeySet(P)
                /\ (D = ScenarioA /\ ~calc.fields.given) =>
                      /\ KeySet(T) = {"title", "tags"}
                      /\ KeySet(P) = {"views"}

\* a string field outside the given list went to passthrough
C27_Witness ==
    /\ Separated
    /\ calc.fields.given
    /\ \E k \in KeySet(calc.doc) \ {"_melaka"} :
          /\ detectFieldType(Get(calc.doc, k)) \in TranslatableTags
          /\ ~Listed(k)
          /\ k \in KeySet(calc.sep[1].nonTranslatable)
    /\ Len(calc.sep[1].translatable) > 0

\* C28: the fingerprint is invariant to key order: two maps with the same
\* key/value pairs inserted in different orders have the same fingerprint,
\* and fingerprinting the same map twice gives the same value.
C28_FingerprintIgnoresKeyOrder ==
    calc.pc = "hashed" =>
        LET M1 == calc.sep[1].translatable
            M2 == calc.sep[2].translatable
        IN  ObjEq(M1, M2) => calc.hashes[1] = calc.hashes[2]

\* two maps of two fields, equal but for the order of insertion, were
\* fingerprinted
C28_Witness ==
    /\ calc.pc = "hashed"
    /\ Len(calc.sep[1].translatable) = 2
    /\ ObjEq(calc.sep[1].translatable, calc.sep[2].translatable)
    /\ calc.sep[1].translatable # calc.sep[2].translatable
    /\ calc.hashes[1] = calc.hashes[2]

\* C29: with the digest injective on its input, the fingerprints of two maps
\* that separate can produce as translatable content differ whenever the maps
\* differ in content, arrays classified string-array by their first element
\* that hold non-string or nested values included.
C29_FingerprintSeparatesContent ==
    calc.pc = "hashed" =>
        LET M1 == calc.sep[1].translatable
            M2 == calc.sep[2].translatable
        IN  ~ObjEq(M1, M2) => calc.hashes[1] # calc.hashes[2]

Classified == calc.pc \in {"classified", "decided"}
ValueAt(n) == IF n = 1 THEN calc.value ELSE calc.second
Owns(a, key) == \E i \in 1..Len(a.props) : a.props[i][1] = key
OwnsString(a, key) == \E i \in 1..Len(a.props) : a.props[i][1] = key /\ a.props[i][2] = "string"
\* the shapes of the store's special values
ReferenceShape(a) == a.k = "object" /\ OwnsString(a, "path") /\ Owns(a, "id")
TimestampShape(a) == a.k = "object" /\ Owns(a, "_seconds") /\ Owns(a, "_nanoseconds")
GeoPointShape(a) == a.k = "object" /\ Owns(a, "latitude") /\ Owns(a, "longitude")

\* C30: classify is total and deterministic: it returns a type tag for every
\* value; null gives nullable-object, an empty array string-array, a
\* non-empty array is tagged from its first element alone as string-array,
\* number-array, reference-array or object-array, reference, timestamp and
\* geo-point shapes give reference or object, primitives map directly, and
\* anything else gives object.
C30_ClassifyTotalByFirstElement ==
    Classified =>
        /\ \A n \in {1, 2} :
              LET v == ValueAt(n)
                  tag == calc.types[n]
              IN  /\ tag \in SchemaTypes
                  /\ v.t = "null" => tag = "object|null"
                  /\ (v.t = "array" /\ Len(v.v) = 0) => tag = "string[]"
                  /\ (v.t = "array" /\ Len(v.v) > 0) =>
                        /\ tag \in {"string[]", "number[]", "DocumentReference[]", "object[]"}
                        /\ v.v[1].k = "string" => tag = "string[]"
                        /\ v.v[1].k = "number" => tag = "number[]"
                        /\ ReferenceShape(v.v[1]) => tag = "DocumentReference[]"
                        /\ (v.v[1].k = "object" /\ ~ReferenceShape(v.v[1])) => tag = "object[]"
                  /\ v.t = "scalar" =>
                        /\ ReferenceShape(v.v[1]) => tag = "DocumentReference"
                        /\ ( /\ ~ReferenceShape(v.v[1])
                             /\ TimestampShape(v.v[1]) \/ GeoPointShape(v.v[1]) )
                              => tag = "object"
                        /\ v.v[1].k \in {"string", "number", "boolean"} => tag = v.v[1].k
                        /\ (v.v[1].k = "object" /\ ~ReferenceShape(v.v[1])) => tag = "object"
        /\ calc.value = calc.second => calc.types[1] = calc.types[2]
        /\ ( /\ calc.value.t = "array" /\ calc.second.t = "array"
             /\ Len(calc.value.v) > 0 /\ Len(calc.second.v) > 0
             /\ calc.value.v[1] = calc.second.v[1] )
              => calc.types[1] = calc.types[2]

\* two arrays with the same first item and different later items were given
\* the same tag
C30_Witness ==
    /\ Classified
    /\ calc.value.t = "array" /\ calc.second.t = "array"
    /\ Len(calc.value.v) = 2 /\ Len(calc.second.v) = 2
    /\ calc.value.v[1] = calc.second.v[1]
    /\ calc.value.v[1].k = "string"
    /\ calc.value.v[2].k = "object"
    /\ calc.second.v[2].k = "number"
    /\ calc.types = <<"string[]", "string[]">>

\* ---------------------------------------------------------------- C31
\* C31: handleTask runs the pipeline with the effective force-update flag of
\* the collection (the collection's forceUpdate when set, otherwise
\* defaults.forceUpdate, otherwise false), so with a shared default of true a
\* task of a collection without its own override re-translates unchanged
\* content instead of skipping it.
C31_EffectiveForceUpdate ==
    LET t == HandlerTask
        effective == getEffectiveForceUpdate(delivery.defaultsForceUpdate,
                                             delivery.forceUpdate) = "true"
    IN  /\ (delivery.phase = "pipeline" /\ IsPass(t)) => (task[t].force <=> effective)
        /\ ( /\ delivery.phase = "pipeline" /\ IsPass(t) /\ task[t].pc = "done"
             /\ delivery.forceUpdate = Undefined
             /\ delivery.defaultsForceUpdate = "true"
             /\ HasContent(t) /\ Clean(t) )
           => task[t].outcome # "skipped_current"

\* ---------------------------------------------------------------- C32
\* the terms a glossary of the configuration defines, none when it is absent
TermsOf(glossary) ==
    IF glossary.present THEN {glossary.terms[i][1] : i \in 1..Len(glossary.terms)} ELSE {}
\* the translation a glossary gives for one of its terms
WordOf(terms, k) == terms[CHOOSE i \in 1..Len(terms) : terms[i][1] = k][2]

\* C32: the glossary passed to the gateway is the key-by-key merge of the
\* shared and the collection glossary: it has every term of either and no
\* other, each once; a term of both carries the collection's translation, a
\* term of one carries that one's; an absent glossary counts as empty.
C32_GlossaryIsMerge ==
    gate.pc = "called" =>
        LET shared == calc.doc
            collection == calc.other
            passed == gate.glossary
        IN  /\ {passed[i][1] : i \in 1..Len(passed)} = TermsOf(shared) \cup TermsOf(collection)
            /\ \A i, j \in 1..Len(passed) : i # j => passed[i][1] # passed[j][1]
            /\ \A i \in 1..Len(passed) :
                  passed[i][2] = IF passed[i][1] \in TermsOf(collection)
                                 THEN WordOf(collection.terms, passed[i][1])
                                 ELSE WordOf(shared.terms, passed[i][1])

\* both glossaries define a term differently, each has a term of its own,
\* and the gateway was handed the collection's translation of the common one
C32_Witness ==
    /\ gate.pc = "called"
    /\ \E k \in TermsOf(calc.doc) \cap TermsOf(calc.other) :
          /\ WordOf(calc.doc.terms, k) # WordOf(calc.other.terms, k)
          /\ WordOf(gate.glossary, k) = WordOf(calc.other.terms, k)
    /\ TermsOf(calc.doc) \ TermsOf(calc.other) # {}
    /\ TermsOf(calc.other) \ TermsOf(calc.doc) # {}

\* ---------------------------------------------------------------- C33
\* the deliveries of the task made so far
Deliveries ==
    delivery.attempt + (IF delivery.phase \in {"get", "pipeline", "returned", "rejected"}
                        THEN 1 ELSE 0)
\* the task is settled: acknowledged (succeeded or skipped) or abandoned
Settled == delivery.phase \in {"acked", "dead"}

\* C33: a task is delivered to the handler at most maxAttempts (3) times; a
\* task whose every attempt failed is abandoned after the third and never
\* delivered again; every task eventually settles as succeeded, skipped or
\* abandoned and stays settled.
C33_BoundedRetry ==
    /\ [](Deliveries <= 3)
    /\ [](delivery.phase = "dead" => (delivery.attempt = 3 /\ delivery.signal = "thrown"))
    /\ [](delivery.phase = "acked" =>
              (delivery.result.success /\ delivery.signal = "ok"))
    /\ [][Settled => delivery' = delivery]_vars
    /\ <>[]Settled

\* three deliveries failed and the task was abandoned
C33_Witness ==
    /\ delivery.phase = "dead"
    /\ delivery.attempt = 3
    /\ ~delivery.result.success /\ ~delivery.result.skipped

\* ---------------------------------------------------------------- C34
\* the step in which deleteTranslation(d, l) removes a record
DeleteStep(d, l) == deletes' = deletes + 1 /\ i18n[<<d, l>>].exists /\ ~i18n'[<<d, l>>].exists
\* the step in which deleteAllTranslations ends, committed or not
DeleteAllEnds == calc.pc = "da_commit" /\ calc'.pc # "da_commit"
\* the locale records of document d in the store
RecordsOf(store, d) == {r \in I18nRefs : r[1] = d /\ store[r].exists}

\* C34: delete(document, locale) removes that locale's record and leaves
\* every other record unchanged; deleteAll(document) removes every locale
\* record of the document that existed when it read the document's records,
\* all in one step or none at all, and leaves the records of other documents
\* unchanged.
C34_DeleteFrames ==
    /\ [][\A d \in Docs, l \in Locales :
            DeleteStep(d, l) =>
                /\ i18n'[<<d, l>>] = NoRecord
                /\ \A r \in I18nRefs \ {<<d, l>>} : i18n'[r] = i18n[r]]_vars
    /\ [][(calc.pc = "da_get" /\ calc'.pc = "da_commit") =>
              calc'.snapshot = RecordsOf(i18n, calc.docId)]_vars
    /\ [][DeleteAllEnds =>
            /\ \/ \A r \in calc.snapshot : ~i18n'[r].exists
               \/ i18n' = i18n
            /\ calc'.pc = "da_done" => \A r \in calc.snapshot : ~i18n'[r].exists
            /\ \A r \in I18nRefs : r[1] # calc.docId => i18n'[r] = i18n[r]
            /\ \A r \in I18nRefs \ calc.snapshot : i18n'[r] = i18n[r]]_vars

\* deleteAll removed both locale records of d1 in one step while d2 kept a
\* record, after a single delete had removed one of d2's two records
C34_Witness ==
    /\ calc.pc = "da_done"
    /\ calc.docId = "d1"
    /\ Cardinality(calc.snapshot) = 2
    /\ RecordsOf(i18n, "d1") = {}
    /\ deletes = 1
    /\ Cardinality(RecordsOf(i18n, "d2")) = 1

\* ---------------------------------------------------------------- C35
\* C35: every payload enqueueForCollection creates for a configured
\* collection, flat or collection group, carries a collectionPath that the
\* handler resolves to a collection configuration, so a task enqueued for an
\* existing document of a configured collection never fails with
\* 'Collection not configured'.
C35_EnqueuedPathResolves ==
    /\ enq.fn = "collection" =>
          \A k \in 1..Len(enq.sent) :
              findCollectionConfig(Collections, enq.sent[k].payload.collectionPath)
    /\ (enq.fn = "collection" /\ delivery.phase = "returned"
          /\ DocExists(delivery.payload.documentId))
       => delivery.result # NotConfiguredResult

\* ---------------------------------------------------------------- C36
\* the step in which pass t invokes the gateway
GatewayStep(t) == IsPass(t) /\ task'[t].gw = task[t].gw + 1
\* the currency check of pass t ran and did not skip
CheckedNotCurrent(t) ==
    task[t].reads = 1 /\ ~(task[t].sawStatus = "completed" /\ task[t].sawSameHash)
\* the pass ended, by returning or by raising
PassEnded(t) == IsPass(t) /\ Ended(t)

\* C36: within one pass the gateway is invoked at most once, and only after
\* the empty-content check and (unless forceUpdate) the currency check did
\* not skip; a completed record is written only after the gateway returned
\* success in that pass, with metadata {source_hash: the fingerprint of that
\* pass, model: the gateway model, status: completed, reviewed: false}; and
\* the pass ends in exactly one of Skipped-empty, Skipped-current,
\* Completed, Failed.
C36_PassStepsOrdered ==
    /\ [][\A t \in Tasks :
            GatewayStep(t) =>
                /\ task[t].gw = 0
                /\ Len(separateContent(task[t].docData, config.fields).translatable) > 0
                /\ task[t].force \/ CheckedNotCurrent(t)]_vars
    /\ [][\A t \in Tasks :
            WriteStep(t) =>
                /\ task[t].gw = 1 /\ task[t].resp = "ok"
                /\ i18n'[TaskRef(t)].melaka.status = "completed"
                /\ i18n'[TaskRef(t)].melaka.source_hash =
                      hashContent(separateContent(task[t].docData, config.fields).translatable)
                /\ i18n'[TaskRef(t)].melaka.model = GeminiModel
                /\ i18n'[TaskRef(t)].melaka.reviewed = FALSE]_vars
    /\ [](\A t \in Tasks :
            PassEnded(t) =>
                /\ task[t].pc = "done"
                /\ task[t].outcome \in {"skipped_empty", "skipped_current",
                                        "completed", "failed"})

\* ---------------------------------------------------------------- C37
\* the object the provider answered with in pass t
Answered(t) == extractJsonFromResponse(task[t].env.reply).obj
\* the source fields pass t hands to the gateway, and the ones it copies
TranslatableKeys(t) == KeySet(separateContent(task[t].docData, config.fields).translatable)
PassthroughKeys(t) == (KeySet(task[t].docData) \ {"_melaka"}) \ TranslatableKeys(t)

\* C37: after a pass ends Completed the record's field names are exactly
\* the source document's field names, the reserved metadata field apart,
\* which holds the record's own metadata: the translatable keys hold what
\* the gateway returned for them, every passthrough field holds the source
\* value verbatim, and no field appears twice.
C37_RecordMirrorsSource ==
    \A t \in Tasks :
        (IsPass(t) /\ task[t].outcome = "completed") =>
            LET rec == i18n[TaskRef(t)]
            IN  /\ rec.exists /\ rec.melaka.present /\ rec.melaka.status = "completed"
                /\ KeySet(rec.fields) = KeySet(task[t].docData) \ {"_melaka"}
                /\ \A i, j \in 1..Len(rec.fields) :
                      i # j => rec.fields[i][1] # rec.fields[j][1]
                /\ \A k \in TranslatableKeys(t) : Get(rec.fields, k) = Get(Answered(t), k)
                /\ \A k \in PassthroughKeys(t) : Get(rec.fields, k) = Get(task[t].docData, k)

\* a pass over a document with metadata of its own was answered with an
\* object that names a copied field too, and completed
C37_Witness ==
    \E t \in Tasks :
        /\ IsPass(t) /\ task[t].outcome = "completed"
        /\ "_melaka" \in KeySet(task[t].docData)
        /\ PassthroughKeys(t) \cap KeySet(Answered(t)) # {}
        /\ Cardinality(TranslatableKeys(t)) = 2

\* ---------------------------------------------------------------- C38
\* C38: no pass and no markFailed stores status pending: after any passes,
\* markFailed calls and deletes every existing record has metadata whose
\* status is completed or failed, and the status query reports completed,
\* failed or missing, never pending, for every locale it is asked about.
C38_NeverPending ==
    /\ \A r \in I18nRefs :
          i18n[r].exists =>
              (i18n[r].melaka.present /\ i18n[r].melaka.status \in {"completed", "failed"})
    /\ \A i \in 1..Len(calc.status) :
          calc.status[i][2] \in {"completed", "failed", "missing"}
    /\ calc.pc = "gs_done" =>
          [i \in 1..Len(calc.status) |-> calc.status[i][1]] = calc.locales

\* the query answered failed for one locale and missing for the other, after
\* a record of the document had been deleted
C38_Witness ==
    /\ calc.pc = "gs_done"
    /\ calc.status[1][2] = "failed"
    /\ calc.status[2][2] = "missing"
    /\ deletes > 0
    /\ \E r \in I18nRefs : i18n[r].exists /\ i18n[r].melaka.status = "completed"

\* ---------------------------------------------------------------- C39
\* the enqueues the transport rejected, in the order they were offered
Rejections == SelectSeq(enq.offered, LAMBDA o : ~o[3])

\* C39: when the transport rejects some enqueues, enqueueForDocument and
\* enqueueForCollection still offer every (document, locale) pair and never
\* raise: in the result tasksEnqueued + failed is the number of pairs,
\* failed is the number of rejected enqueues and errors holds exactly one
\* message per rejected enqueue.
C39_RejectionsAreCounted ==
    /\ enq.pc # "threw"
    /\ enq.pc = "done" =>
          /\ [i \in 1..Len(enq.offered) |-> <<enq.offered[i][1], enq.offered[i][2]>>] = enq.pairs
          /\ enq.tasksEnqueued + enq.failed = Len(enq.pairs)
          /\ enq.failed = Len(Rejections)
          /\ enq.tasksEnqueued = Len(enq.sent)
          /\ enq.errors = [i \in 1..Len(Rejections) |->
                              <<"Failed to enqueue", Rejections[i][1], Rejections[i][2]>>]

\* a collection call whose first enqueue was rejected went on, had a later
\* one accepted and another rejected, and returned
C39_Witness ==
    /\ enq.pc = "done" /\ enq.fn = "collection"
    /\ Len(enq.offered) >= 4
    /\ ~enq.offered[1][3]
    /\ enq.failed = 2
    /\ enq.tasksEnqueued >= 2
    /\ \E i, j \in 1..Len(enq.offered) : i < j /\ enq.offered[i][3] /\ ~enq.offered[j][3]

====
